---- MODULE Spec2Model ----
(***************************************************************************)
(* A model of the agentic core of testfoundry (src/ai_tester):             *)
(*   - llm.py    _try_extract_json, invoke_with_tools, resilient_invoke    *)
(*   - tools.py  the four registry tools and the helpers they call         *)
(*   - graph.py  tool_dispatcher                                           *)
(* A behaviour exercises one operation (variable op), chosen together with *)
(* its inputs and its environment by Init.                                 *)
(***************************************************************************)
EXTENDS Integers, Sequences, FiniteSets, TLC

\* ------------------------------------------------------------------ bounds
\* Model calls one invocation of invoke_with_tools may make in the exact view.
MaxModelCalls == 3
\* Largest ceiling (max_tool_calls) drawn by Init; the smallest drawn is -1.
MaxCeiling == 3
\* The limit of supersteps of one run of the graph: the runtime's recursion
\* limit, 25 unless the caller's configuration sets another.  A run that has
\* nodes left to run at the limit raises GraphRecursionError.
RecursionLimit == 7

\* ------------------------------------------------- program constants
\* llm.py:69  stop_after_attempt(3)
MAX_ATTEMPTS == 3
\* llm.py:69  wait_exponential(multiplier=1, min=2, max=8)
WAIT_MULTIPLIER == 1
WAIT_MIN == 2
WAIT_MAX == 8
\* tools.py:294, 295, 395  argument defaults (cost in millionths of a dollar)
DEFAULT_RUNTIME_PER_TEST_S == 3
DEFAULT_COST_PER_SECOND_MICRO_USD == 500
DEFAULT_TIMEOUT == 60

\* ------------------------------------------------------- JSON values
\* A parsed JSON value, as json.loads builds it.  An object's members are a
\* function from its keys; the empty object has the empty function.
Null == [kind |-> "null"]
Num(n) == [kind |-> "number", n |-> n, e |-> 0]
\* A number with e decimal places: n / 10^e (Dec(5, 1) is 0.5).
Dec(n, e) == [kind |-> "number", n |-> n, e |-> e]
Bool(b) == [kind |-> "bool", b |-> b]
Str(s) == [kind |-> "string", s |-> s]
Arr(items) == [kind |-> "array", items |-> items]
Obj(members) == [kind |-> "object", members |-> members]
EmptyObj == Obj(<<>>)

\* Python's None for a value that is absent (dict.get without a default).
None == Null

IsDict(v) == v.kind = "object"
IsList(v) == v.kind = "array"
IsStr(v) == v.kind = "string"

\* Python truthiness, as `not parsed` and `x or {}` use it.
Truthy(v) ==
    CASE v.kind = "null" -> FALSE
      [] v.kind = "number" -> v.n # 0
      [] v.kind = "bool" -> v.b
      [] v.kind = "string" -> v.s # ""
      [] v.kind = "array" -> Len(v.items) > 0
      [] v.kind = "object" -> DOMAIN v.members # {}

\* dict.get(key, default) on a mapping.
DictGet(d, key, default) ==
    IF key \in DOMAIN d.members THEN d.members[key] ELSE default

\* `a in b` between two of the strings the catalogue uses (substring test).
Substring(a, b) ==
    \/ a = b
    \/ a = ""
    \/ a = "tool_call" /\ b = "tool_calls"

\* Python's `key in v` for a string key: "yes", "no", or "TypeError" when v
\* is not a container (int, bool, None).
PyIn(key, v) ==
    CASE v.kind = "object" -> IF key \in DOMAIN v.members THEN "yes" ELSE "no"
      [] v.kind = "string" -> IF Substring(key, v.s) THEN "yes" ELSE "no"
      [] v.kind = "array" ->
           IF \E i \in 1..Len(v.items) : v.items[i] = Str(key) THEN "yes" ELSE "no"
      [] OTHER -> "TypeError"

\* Python's `v[key]` for a string key: the member of a mapping; a str or a
\* list cannot be indexed by a str (TypeError).
Subscriptable(key, v) == v.kind = "object" /\ key \in DOMAIN v.members

\* ------------------------------------------------- response contents
\* The text of a response is a sequence of segments:
\*   prose  - text holding no brace and no JSON document;
\*   ws     - white space;
\*   open   - a lone "{";   close - a lone "}";
\*   json   - the text of one well-formed JSON document, with its value; the
\*            text of an object starts with "{" and ends with "}", the text
\*            of the scalars and flat arrays used here holds no brace.
Prose == [seg |-> "prose"]
Ws == [seg |-> "ws"]
OpenBrace == [seg |-> "open"]
CloseBrace == [seg |-> "close"]
Json(v) == [seg |-> "json", val |-> v]

HasOpenBrace(s) == s.seg = "open" \/ (s.seg = "json" /\ s.val.kind = "object")
HasCloseBrace(s) == s.seg = "close" \/ (s.seg = "json" /\ s.val.kind = "object")

\* str.strip(): drop leading and trailing white space.
RECURSIVE StripLeft(_)
StripLeft(t) ==
    IF t # <<>> /\ Head(t).seg = "ws" THEN StripLeft(Tail(t)) ELSE t

RECURSIVE StripRight(_)
StripRight(t) ==
    IF t # <<>> /\ t[Len(t)].seg = "ws"
    THEN StripRight(SubSeq(t, 1, Len(t) - 1))
    ELSE t

Strip(t) == StripLeft(StripRight(t))

\* json.loads(text): [ok, val].  The text is a JSON document iff, ignoring
\* surrounding white space, it is one json segment, or "{" directly followed
\* by "}" (the empty object, possibly with white space between).
NoWs(t) == SelectSeq(t, LAMBDA s : s.seg # "ws")

JsonLoads(t) ==
    LET core == Strip(t) IN
    IF Len(core) = 1 /\ core[1].seg = "json"
    THEN [ok |-> TRUE, val |-> core[1].val]
    ELSE IF Len(core) >= 2 /\ core[1].seg = "open" /\ core[Len(core)].seg = "close"
            /\ Len(NoWs(core)) = 2
    THEN [ok |-> TRUE, val |-> EmptyObj]
    ELSE [ok |-> FALSE, val |-> None]

\* re.search(r"(\{[\s\S]*\})", text): the match runs from the first "{" to
\* the LAST "}" of the text (the star is greedy); 0 0 when nothing matches.
FirstOpen(t) ==
    IF \E i \in 1..Len(t) : HasOpenBrace(t[i])
    THEN CHOOSE i \in 1..Len(t) :
            HasOpenBrace(t[i]) /\ \A j \in 1..(i - 1) : ~HasOpenBrace(t[j])
    ELSE 0

LastClose(t) ==
    IF \E i \in 1..Len(t) : HasCloseBrace(t[i])
    THEN CHOOSE i \in 1..Len(t) :
            HasCloseBrace(t[i]) /\ \A j \in (i + 1)..Len(t) : ~HasCloseBrace(t[j])
    ELSE 0

BraceBlob(t) ==
    LET i == FirstOpen(t)
        j == LastClose(t)
    IN  IF i = 0 \/ j = 0 \/ j < i \/ (j = i /\ t[i].seg = "open")
        THEN [found |-> FALSE, blob |-> <<>>]
        ELSE [found |-> TRUE, blob |-> SubSeq(t, i, j)]

\* _try_extract_json(text): the parsed value, or None.
_try_extract_json(text) ==
    LET t == Strip(text)
        whole == JsonLoads(t)
        m == BraceBlob(t)
    IN  IF whole.ok THEN whole.val
        ELSE IF ~m.found THEN None
        ELSE IF JsonLoads(m.blob).ok THEN JsonLoads(m.blob).val
        ELSE None

\* ----------------------------------------------------- the environment
\* A file of the working directory: its directory ("." is the working
\* directory itself), its name as tokens (the last one is the extension) and
\* whether its first 1024 bytes hold a null byte.
File(dir, name, nul) == [dir |-> dir, name |-> name, nul |-> nul]

\* tools.py:37-67
BINARY_EXTENSIONS ==
    {".png", ".jpg", ".jpeg", ".gif", ".webp", ".mp4", ".mov", ".pdf", ".exe",
     ".dll", ".so", ".bin", ".class", ".jar", ".zip", ".tar", ".gz", ".7z"}
IGNORED_DIRS ==
    {".git", "__pycache__", "node_modules", ".venv", "venv", ".idea", ".pytest_cache"}
IGNORED_FILES == {<<".DS_Store">>, <<"thumbs", ".db">>}

\* is_binary_file: by extension, else by a null byte in the first 1024 bytes.
is_binary_by_extension(f) == f.name[Len(f.name)] \in BINARY_EXTENSIONS
is_binary_file(f) == f.name[Len(f.name)] \in BINARY_EXTENSIONS \/ f.nul

\* os.path.relpath(full_path, start_path) for a file found under start_path.
RelPath(f, start_path) ==
    IF start_path = "." THEN [dir |-> f.dir, name |-> f.name]
    ELSE [dir |-> ".", name |-> f.name]

\* get_all_files_list(start_path): the relative paths of the files os.walk
\* reaches from start_path without entering an ignored directory, that are
\* neither ignored nor binary.  The order of the list is the directory
\* order of the platform; the model keeps the set.
get_all_files_list(start_path, files) ==
    { RelPath(f, start_path) :
        f \in { g \in files :
                  /\ start_path = "." \/ g.dir = start_path
                  /\ g.dir = start_path \/ g.dir \notin IGNORED_DIRS
                  /\ g.name \notin IGNORED_FILES
                  /\ ~is_binary_file(g) } }

\* The artifacts the tools write under outputs/ of the working directory.
ArtifactFileList == File("outputs", <<"tool_file_list", ".json">>, FALSE)
ArtifactCostEstimate == File("outputs", <<"tool_cost_estimate", ".json">>, FALSE)
ArtifactModelOutput == File("outputs", <<"tool_model_output", ".txt">>, FALSE)
ArtifactFileRead(name) == File("outputs", <<"tool_file_read_">> \o name \o <<".txt">>, FALSE)

\* save_intermediate(path, content): creates outputs/ and writes the file;
\* raises OSError when the working directory cannot be written.
save_intermediate(artifact, files, disk) ==
    IF disk = "rw"
    THEN [ok |-> TRUE, files |-> files \cup {artifact}]
    ELSE [ok |-> FALSE, files |-> files]

\* What a tool call does: it returns a result mapping or raises, and leaves
\* the files of the working directory as given.
Returns(result, files) == [raised |-> FALSE, exc |-> "", out |-> result, files |-> files]
Raises(exc, files) == [raised |-> TRUE, exc |-> exc, out |-> [error |-> exc], files |-> files]

\* The name of a path given as text: its tokens (a base name plus extension).
PathName(s) ==
    CASE s = "a.py" -> <<"a", ".py">>
      [] s = "missing.py" -> <<"missing", ".py">>
      [] OTHER -> <<s>>

\* read_file_content(filepath): the content, or the bracketed error text; it
\* never raises.
read_file_content(dir, name, files) ==
    IF \E f \in files : f.dir = dir /\ f.name = name
    THEN [text |-> "content", of |-> <<dir, name>>]
    ELSE [text |-> "[Error reading]", of |-> <<dir, name>>]

\* file_reader_tool(args)
file_reader_tool(args, files, env) ==
    IF ~IsDict(args) THEN Raises("AttributeError", files)
    ELSE LET repo_root == DictGet(args, "repo_root", Str("."))
             path == DictGet(args, "path", None)
         IN  IF ~Truthy(path) THEN Returns([error |-> "no path provided"], files)
             ELSE IF ~IsStr(path) \/ ~IsStr(repo_root) THEN Raises("TypeError", files)
             ELSE LET content == read_file_content(repo_root.s, PathName(path.s), files)
                      saved == save_intermediate(ArtifactFileRead(PathName(path.s)), files, env.disk)
                  IN  IF saved.ok
                      THEN Returns([content |-> content, path |-> path.s], saved.files)
                      ELSE Returns([error |-> "OSError"], files)

\* file_list_tool(args)
file_list_tool(args, files, env) ==
    IF ~IsDict(args) THEN Raises("AttributeError", files)
    ELSE LET repo_root == DictGet(args, "repo_root", Str("."))
             listed == get_all_files_list(IF IsStr(repo_root) THEN repo_root.s ELSE "str(repo_root)",
                                          files)
             saved == save_intermediate(ArtifactFileList, files, env.disk)
         IN  IF saved.ok
             THEN Returns([files |-> listed], saved.files)
             ELSE Returns([error |-> "OSError"], files)

\* len(x) of a JSON value: -1 stands for the TypeError of an unsized value.
PyLen(v) ==
    CASE v.kind = "array" -> Len(v.items)
      [] v.kind = "object" -> Cardinality(DOMAIN v.members)
      [] v.kind = "string" -> IF v.s = "" THEN 0 ELSE 1
      [] OTHER -> -1

\* The number v in units of 10^-e (v has at most e decimal places).
Scaled(v, e) == v.n * (10 ^ (e - v.e))

\* int(x / d) for an integer x: the quotient truncated toward zero.
TruncDiv(x, d) == IF x >= 0 THEN x \div d ELSE -((-x) \div d)

\* x / d rounded to the nearest integer, a tie to the even one.
RoundDiv(x, d) ==
    LET a == IF x >= 0 THEN x ELSE -x
        q == a \div d
        r == a % d
        m == IF 2 * r < d THEN q
             ELSE IF 2 * r > d THEN q + 1
             ELSE IF q % 2 = 0 THEN q ELSE q + 1
    IN  IF x >= 0 THEN m ELSE -m

\* tools.py:303-306.  count is len(files); the runtime has at most 3
\* decimal places and the cost at most 9; estimate_usd is kept in millionths
\* of a dollar, the precision round(.., 6) keeps.
estimate_cost_dividing(count, runtime_per_test_s, cost_per_second_usd) ==
    LET estimated_seconds ==
            IF count = 0 THEN 0
            ELSE TruncDiv(Scaled(runtime_per_test_s, 3), count * (10 ^ 3))
    IN  [estimate_usd_micro |->
            RoundDiv(estimated_seconds * Scaled(cost_per_second_usd, 9), 10 ^ 3),
         estimated_seconds |-> estimated_seconds]

estimate_cost_rounding_up(count, runtime_per_test_s, cost_per_second_usd) ==
    LET estimated_seconds ==
            -TruncDiv(-(count * Scaled(runtime_per_test_s, 3)) - (10 ^ 3 - 1), 10 ^ 3)
    IN  [estimate_usd_micro |->
            RoundDiv(estimated_seconds * Scaled(cost_per_second_usd, 9), 10 ^ 3),
         estimated_seconds |-> estimated_seconds]

estimate_cost_for_files(count, runtime_per_test_s, cost_per_second_usd) ==
    LET estimated_seconds == TruncDiv(count * Scaled(runtime_per_test_s, 3), 10 ^ 3)
    IN  [estimate_usd_micro |->
            RoundDiv(estimated_seconds * Scaled(cost_per_second_usd, 9), 10 ^ 3),
         estimated_seconds |-> estimated_seconds]

\* cost_estimator_tool(args).  A runtime or a cost that is no number is not
\* multiplied out here: the arithmetic on it is taken to fail inside the try.
cost_estimator_tool(args, files, env) ==
    IF ~IsDict(args) THEN Raises("AttributeError", files)
    ELSE LET fl == DictGet(args, "files", Arr(<<>>))
             runtime_per == DictGet(args, "runtime_per_test_s", Num(DEFAULT_RUNTIME_PER_TEST_S))
             cost_per_second == DictGet(args, "cost_per_second_usd",
                                        Dec(DEFAULT_COST_PER_SECOND_MICRO_USD, 6))
         IN  IF PyLen(fl) < 0 \/ runtime_per.kind # "number" \/ cost_per_second.kind # "number"
             THEN Returns([error |-> "TypeError"], files)
             ELSE LET estimate == estimate_cost_for_files(PyLen(fl), runtime_per, cost_per_second)
                      saved == save_intermediate(ArtifactCostEstimate, files, env.disk)
                  IN  IF saved.ok
                      THEN Returns([estimate |-> estimate], saved.files)
                      ELSE Returns([error |-> "OSError"], files)

\* int(x) of a JSON value: "" when it converts, else the exception raised.
NumericStrings == {"60", "5"}
PyIntError(v) ==
    CASE v.kind = "number" -> ""
      [] v.kind = "bool" -> ""
      [] v.kind = "string" -> IF v.s \in NumericStrings THEN "" ELSE "ValueError"
      [] OTHER -> "TypeError"

\* run_model_via_ollama: the output of the local model process, or a
\* RuntimeError when the process is absent, times out or exits non-zero.
run_model_via_ollama(env) ==
    CASE env.ollama = "json" -> [ok |-> TRUE, out |-> "{json}"]
      [] env.ollama = "text" -> [ok |-> TRUE, out |-> "text"]
      [] OTHER -> [ok |-> FALSE, out |-> ""]

\* model_runner_tool(args): int(timeout) is converted before the try block.
model_runner_tool(args, files, env) ==
    IF ~IsDict(args) THEN Raises("AttributeError", files)
    ELSE LET timeout == DictGet(args, "timeout", Num(DEFAULT_TIMEOUT))
             as_json == Truthy(DictGet(args, "as_json", Bool(FALSE)))
             ran == run_model_via_ollama(env)
             saved == save_intermediate(ArtifactModelOutput, files, env.disk)
         IN  IF PyIntError(timeout) # "" THEN Raises(PyIntError(timeout), files)
             ELSE IF ~ran.ok THEN Returns([error |-> "RuntimeError"], files)
             ELSE IF ~saved.ok THEN Returns([error |-> "OSError"], files)
             ELSE IF ~as_json THEN Returns([output |-> ran.out], saved.files)
             ELSE IF env.ollama = "json"
             THEN Returns([output |-> ran.out, json |-> "parsed"], saved.files)
             ELSE Returns([output |-> ran.out, json_error |-> "failed to parse JSON"], saved.files)

\* tools_for_binding / _build_tool_map: the names of the registry.
TOOL_NAMES == {"file_reader", "file_list", "cost_estimator", "model_runner"}

\* tool_map[name](args)
CallTool(name, args, files, env) ==
    CASE name = "file_reader" -> file_reader_tool(args, files, env)
      [] name = "file_list" -> file_list_tool(args, files, env)
      [] name = "cost_estimator" -> cost_estimator_tool(args, files, env)
      [] name = "model_runner" -> model_runner_tool(args, files, env)

\* ------------------------------------------------------ the catalogue
\* Tool calls a model may request (entries of "tool_calls").
CallFileList == Obj([name |-> Str("file_list"), args |-> Obj([repo_root |-> Str(".")])])
CallFileReader == Obj([name |-> Str("file_reader"), args |-> Obj([path |-> Str("a.py")])])
CallReaderNoPath == Obj([name |-> Str("file_reader")])
CallCost ==
    Obj([name |-> Str("cost_estimator"),
         args |-> Obj([files |-> Arr(<<Str("a.py"), Str("b.js")>>)])])
CallRunner == Obj([name |-> Str("model_runner"), args |-> Obj([prompt |-> Str("hi")])])
CallRunnerBadTimeout ==
    Obj([name |-> Str("model_runner"),
         args |-> Obj([prompt |-> Str("hi"), timeout |-> Str("soon")])])
CallUnknown == Obj([name |-> Str("shell"), args |-> EmptyObj])
CallNoName == Obj([args |-> Obj([repo_root |-> Str(".")])])
CallArgsNotMapping == Obj([name |-> Str("file_list"), args |-> Str("x")])
CallNotMapping == Str("file_list")

ToolCalls(batch) == Json(Obj([tool_calls |-> Arr(batch)]))

\* Response contents a model may give.
Responses ==
    << <<Prose>>,                                                 \* 1 a plain answer
       <<ToolCalls(<<CallFileList>>)>>,                           \* 2
       <<Json(Obj([tool_call |-> CallFileReader]))>>,             \* 3
       <<ToolCalls(<<CallUnknown, CallFileList>>)>>,              \* 4
       <<ToolCalls(<<CallRunnerBadTimeout, CallCost, CallReaderNoPath>>)>>,  \* 5
       <<ToolCalls(<<>>)>>,                                       \* 6 an empty batch
       <<Json(Num(42))>>,                                         \* 7
       <<Prose, ToolCalls(<<CallFileList>>), Prose, Ws>>,         \* 8 object inside prose
       <<Prose, ToolCalls(<<CallFileList>>), Prose, Json(Obj([note |-> Str("x")]))>>,  \* 9
       <<Json(Obj([answer |-> Str("done")]))>>,                   \* 10 no tool field
       <<ToolCalls(<<CallNotMapping>>)>>,                         \* 11
       <<Json(Str("tool_call"))>>,                                \* 12
       <<OpenBrace, Ws, CloseBrace>>,                             \* 13 the empty object
       <<ToolCalls(<<CallNoName, CallArgsNotMapping, CallRunner>>)>>,  \* 14
       <<Prose, OpenBrace, Prose>>                                \* 15 a lone brace
    >>

Message(role, content) == [role |-> role, content |-> content]
NoResponse == Message("none", <<>>)

\* The conversations a caller passes in.
InputConversations ==
    << <<Message("system", <<Prose>>), Message("user", <<Prose>>)>>,
       <<Message("user", <<Prose>>)>> >>

\* The environments: the files of the working directory, whether it can be
\* written, and the local model process.
FileA == File(".", <<"a", ".py">>, FALSE)
Environments ==
    << [files |-> {FileA}, disk |-> "rw", ollama |-> "json"],
       [files |-> {FileA, File("src", <<"b", ".js">>, FALSE), File(".", <<"logo", ".png">>, FALSE),
                   File(".git", <<"config">>, FALSE), File(".", <<"data", ".dat">>, TRUE)},
        disk |-> "rw", ollama |-> "text"],
       [files |-> {FileA}, disk |-> "ro", ollama |-> "absent"] >>

\* ----------------------------------------------------------- the state
VARIABLES
    op,                 \* the operation this behaviour exercises
    view,               \* "exact", or "control": conversation and call count not kept
    env,                \* [disk, ollama]
    fs,                 \* the files of the working directory
    messages,           \* invoke_with_tools: the caller's list
    max_tool_calls,     \* invoke_with_tools: the ceiling
    pc,                 \* invoke_with_tools: where the loop stands
    conversation,       \* llm.py:142
    tool_calls_done,    \* llm.py:144
    resp,               \* llm.py:150
    calls,              \* llm.py:163
    idx,                \* position of the for loop of llm.py:175 in calls
    tool_results_texts, \* llm.py:174
    returned,           \* the value invoke_with_tools returned
    raised,             \* the exception invoke_with_tools raised ("" for none)
    modelCalls,         \* number of llm.invoke calls of this invocation
    executed,           \* the tool calls of this invocation: name, args, output
    memo,               \* the answers the model gave: <<conversation, response>>
    run,                \* 1, or 2 in the second of two invocations in a row
    firstRun,           \* what the first invocation executed and returned
    pending_tool,       \* tool_dispatcher: state["pending_tool"] (None when absent)
    node,               \* tool_dispatcher: [status, update, exc]
    attempt_number,     \* resilient_invoke: the attempt under way (from 1)
    retry,              \* resilient_invoke: [status, failures, slept, result, exc]
    invoke_failures,    \* invoke_with_tools: the llm.invoke calls that raised
    ChatLiteLLM,        \* llm.py:18-22: the client class, None when not importable
    LLM_MODEL,          \* config.py:14
    environ,            \* os.environ: the variables that hold a value
    state,              \* the graph: the shared state record (keys: the keys that are set)
    step,               \* the graph: the number of the superstep under way
    tasks,              \* the graph: what each node is in this superstep
    updates,            \* the graph: what the nodes of this superstep returned
    graph_run,          \* the graph: [status, exc, node] of the run
    executions,         \* the graph: how often each node has run to its end
    analysis,           \* analyze_codebase: [files_list, idx, project_context, outcomes]
    call_failed,        \* the graph: a model call or a tool call of this run failed
    fn_args,            \* a function called on its own: its arguments
    fn_result           \* a function called on its own: [done, value]

loopVars ==
    <<messages, max_tool_calls, pc, conversation, tool_calls_done, resp, calls, idx,
      tool_results_texts, returned, raised, modelCalls, executed, memo, run, firstRun,
      invoke_failures>>

otherVars == <<pending_tool, node, attempt_number, retry>>

configVars == <<ChatLiteLLM, LLM_MODEL, environ>>

pipeVars == <<state, step, tasks, updates, graph_run, executions, analysis, call_failed>>

fnVars == <<fn_args, fn_result>>

vars == <<configVars, pipeVars, fnVars, op, view, env, fs, loopVars, otherVars>>

Ceilings == -1..MaxCeiling

LoopStart(msgs, ceiling) ==
    /\ messages = msgs
    /\ max_tool_calls = ceiling
    /\ pc = "AwaitingModel"
    /\ conversation = msgs
    /\ tool_calls_done = 0
    /\ resp = NoResponse
    /\ calls = <<>>
    /\ idx = 0
    /\ tool_results_texts = <<>>
    /\ returned = NoResponse
    /\ raised = ""
    /\ modelCalls = 0
    /\ executed = <<>>
    /\ memo = {}
    /\ run = 1
    /\ firstRun = [executed |-> <<>>, returned |-> NoResponse]
    /\ invoke_failures = 0

InitEnv ==
    \E e \in 1..Len(Environments) :
        /\ env = [disk |-> Environments[e].disk, ollama |-> Environments[e].ollama]
        /\ fs = Environments[e].files

\* ------------------------------------------------------ configuration
\* A model name is its head and its tail: the head is the prefix of the
\* provider table the name starts with, when it starts with one.
ModelNames ==
    { <<"ollama", "/llama3">>, <<"gpt", "-4o">>, <<"claude", "-3-haiku">> }

\* config.py:14: the value LLM_MODEL has when the environment sets none.
DefaultModel == <<"ollama", "/llama3">>

\* llm.py:37-45
provider_keys ==
    [prefix \in {"openrouter", "gpt", "openai", "anthropic", "claude", "gemini", "mistral"} |->
        CASE prefix = "openrouter" -> "OPENROUTER_API_KEY"
          [] prefix \in {"gpt", "openai"} -> "OPENAI_API_KEY"
          [] prefix \in {"anthropic", "claude"} -> "ANTHROPIC_API_KEY"
          [] prefix = "gemini" -> "GEMINI_API_KEY"
          [] prefix = "mistral" -> "MISTRAL_API_KEY"]

StartsWith(model_name, prefix) == model_name[1] = prefix

\* The credential variable the provider table asks for ("" when none).
RequiredCredential(model_name) ==
    IF \E prefix \in DOMAIN provider_keys : StartsWith(model_name, prefix)
    THEN provider_keys[CHOOSE prefix \in DOMAIN provider_keys : StartsWith(model_name, prefix)]
    ELSE ""

\* llm.py:32-55: "exit" is sys.exit(1).  No function of the program calls
\* validate_environment.
validate_environment(model_name, environment) ==
    IF \E prefix \in DOMAIN provider_keys :
          StartsWith(model_name, prefix) /\ provider_keys[prefix] \notin environment
    THEN "exit" ELSE "return"

\* llm.py:18-22: the client class, or None when the import failed.
ClientClass == [kind |-> "class"]

\* llm.py:58-66: the exception _make_litellm raises ("" when it returns a client).
_make_litellm(client) == IF client = None THEN "RuntimeError" ELSE ""

\* ---------------------------------------------------- the graph's state
\* graph.py:82-87
Nodes == {"analyzer", "planner", "tool_dispatcher", "agent", "generator", "runner"}

\* The state record of the graph.  keys holds the keys that are set; a key
\* that is not set has the empty value of its kind.
NoToolResponse == [none |-> TRUE]
NoContext == [tree |-> {}, sections |-> <<>>]
BlankState ==
    [keys |-> {}, target_dir |-> ".", file_list |-> <<>>, project_context |-> NoContext,
     test_plan |-> "", generated_test_code |-> "", test_results |-> "", final_report |-> "",
     messages |-> <<>>, llm_output |-> <<>>, llm_error |-> "",
     pending_tool |-> None, tool_response |-> NoToolResponse, last_tool_name |-> ""]

NoAnalysis == [files_list |-> <<>>, idx |-> 0, project_context |-> NoContext, outcomes |-> <<>>]

\* The state of the graph in a behaviour that does not run it.
PipelineIdle ==
    /\ state = BlankState
    /\ step = 0
    /\ tasks = [n \in Nodes |-> "idle"]
    /\ updates = BlankState
    /\ graph_run = [status |-> "NotCalled", exc |-> "", node |-> ""]
    /\ executions = [n \in Nodes |-> [started |-> 0, completed |-> 0]]
    /\ analysis = NoAnalysis
    /\ call_failed = FALSE

\* No function is called on its own.
NotCalled == [done |-> FALSE]
FunctionIdle ==
    /\ fn_args = [none |-> TRUE]
    /\ fn_result = NotCalled

\* The configuration of an operation that does not read it.
DefaultConfig ==
    /\ ChatLiteLLM = ClientClass
    /\ LLM_MODEL = DefaultModel
    /\ environ = {}

\* The configurations a process may start with.
InitConfig ==
    /\ ChatLiteLLM \in {ClientClass, None}
    /\ LLM_MODEL \in ModelNames
    /\ environ \in SUBSET {"OPENAI_API_KEY", "ANTHROPIC_API_KEY"}

\* tenacity's RetryError: it carries the attempt that failed last.
NoError == [type |-> "", last_attempt |-> ""]
RetryError(failure) == [type |-> "RetryError", last_attempt |-> failure]

\* The state of an operation this behaviour does not exercise.
LoopIdle ==
    /\ messages = <<>>
    /\ max_tool_calls = 0
    /\ pc = "NotCalled"
    /\ conversation = <<>>
    /\ tool_calls_done = 0
    /\ resp = NoResponse
    /\ calls = <<>>
    /\ idx = 0
    /\ tool_results_texts = <<>>
    /\ returned = NoResponse
    /\ raised = ""
    /\ modelCalls = 0
    /\ executed = <<>>
    /\ memo = {}
    /\ run = 1
    /\ firstRun = [executed |-> <<>>, returned |-> NoResponse]
    /\ invoke_failures = 0

NodeIdle ==
    /\ pending_tool = None
    /\ node = [status |-> "NotCalled", update |-> <<>>, exc |-> ""]

RetryIdle ==
    /\ attempt_number = 0
    /\ retry = [status |-> "NotCalled", failures |-> <<>>, slept |-> <<>>,
                result |-> NoResponse, exc |-> NoError]

\* invoke_with_tools with the client installed (llm.py:137 returns a client).
InitLoop ==
    /\ op = "invoke_with_tools"
    /\ PipelineIdle
    /\ FunctionIdle
    /\ DefaultConfig
    /\ InitEnv
    /\ \E m \in 1..Len(InputConversations), c \in Ceilings :
          LoopStart(InputConversations[m], c)
    /\ NodeIdle
    /\ RetryIdle

\* The values state["pending_tool"] may hold when tool_dispatcher runs.
PendingTools ==
    <<None, CallFileList, CallFileReader, CallReaderNoPath, CallCost, CallRunner,
      CallRunnerBadTimeout, CallUnknown, CallNoName, CallArgsNotMapping, CallNotMapping>>

InitDispatch ==
    /\ op = "tool_dispatcher"
    /\ PipelineIdle
    /\ FunctionIdle
    /\ DefaultConfig
    /\ InitEnv
    /\ LoopIdle
    /\ \E p \in 1..Len(PendingTools) : pending_tool = PendingTools[p]
    /\ node = [status |-> "called", update |-> <<>>, exc |-> ""]
    /\ RetryIdle

InitResilient ==
    /\ op = "resilient_invoke"
    /\ PipelineIdle
    /\ FunctionIdle
    /\ InitConfig
    /\ InitEnv
    /\ LoopIdle
    /\ NodeIdle
    /\ attempt_number = 1
    /\ retry = [status |-> "attempting", failures |-> <<>>, slept |-> <<>>,
                result |-> NoResponse, exc |-> NoError]

Init ==
    /\ view = "exact"
    /\ InitLoop \/ InitDispatch \/ InitResilient

\* ------------------------------------------------- invoke_with_tools
\* llm.py:150  resp = llm.invoke(conversation).  The model is a function of
\* the conversation it is given: asked the same conversation again, it gives
\* the answer it gave before.
ModelAnswers(i) ==
    \A e \in memo : e[1] = conversation => e[2] = i

InvokeModel ==
    /\ op = "invoke_with_tools"
    /\ pc = "AwaitingModel"
    /\ view = "exact" => modelCalls < MaxModelCalls
    /\ \E i \in 1..Len(Responses) :
          /\ view = "exact" => ModelAnswers(i)
          /\ resp' = Message("assistant", Responses[i])
          /\ memo' = IF view = "exact" THEN memo \cup {<<conversation, i>>} ELSE memo
    /\ modelCalls' = IF view = "exact" THEN modelCalls + 1 ELSE modelCalls
    /\ pc' = "InspectingResponse"
    /\ UNCHANGED <<configVars, pipeVars, fnVars, op, view, env, fs, messages, max_tool_calls, conversation,
                   tool_calls_done, calls, idx, tool_results_texts, returned, raised,
                   executed, run, firstRun, otherVars,
                   invoke_failures>>

\* llm.py:150  llm.invoke raises: nothing in invoke_with_tools catches it.
ModelRaises ==
    /\ op = "invoke_with_tools"
    /\ pc = "AwaitingModel"
    /\ view = "exact"
    /\ modelCalls < MaxModelCalls
    /\ modelCalls' = modelCalls + 1
    /\ invoke_failures' = invoke_failures + 1
    /\ raised' = "BackendError"
    /\ pc' = "Raised"
    /\ UNCHANGED <<configVars, pipeVars, fnVars, op, view, env, fs, messages, max_tool_calls, conversation,
                   tool_calls_done, resp, calls, idx, tool_results_texts, returned,
                   executed, memo, run, firstRun, otherVars>>

\* llm.py:156-171: what the parsed value makes of the response.
\*   final - the response is the final answer;  batch - it requests calls;
\*   raise - evaluating the conditions raises TypeError.
Final == [kind |-> "final", calls |-> <<>>]
Batch(cs) == [kind |-> "batch", calls |-> cs]
TypeErr == [kind |-> "raise", calls |-> <<>>]

ClassifyToolCalls(parsed) ==
    IF PyIn("tool_calls", parsed) = "yes"
    THEN IF ~Subscriptable("tool_calls", parsed) THEN TypeErr
         ELSE IF IsList(parsed.members["tool_calls"])
         THEN Batch(parsed.members["tool_calls"].items)
         ELSE Final
    ELSE Final

Classify(parsed) ==
    IF ~Truthy(parsed) THEN Final
    ELSE IF PyIn("tool_call", parsed) = "TypeError" THEN TypeErr
    ELSE IF PyIn("tool_call", parsed) = "yes"
    THEN IF ~Subscriptable("tool_call", parsed) THEN TypeErr
         ELSE IF IsDict(parsed.members["tool_call"])
         THEN Batch(<<parsed.members["tool_call"]>>)
         ELSE ClassifyToolCalls(parsed)
    ELSE ClassifyToolCalls(parsed)

\* What llm.py:155-171 make of each content of the catalogue (the parse and
\* the classification of a text depend on the text alone).
Classification ==
    [i \in 1..Len(Responses) |-> Classify(_try_extract_json(Responses[i]))]

Inspect(content) ==
    Classification[CHOOSE i \in 1..Len(Responses) : Responses[i] = content]

\* conversation.append(x), kept in the exact view only.
Restarted(conv, msgs) == IF view = "exact" THEN msgs ELSE conv
Appended(conv, msgs) == IF view = "exact" THEN conv \o msgs ELSE conv

\* llm.py:151-171
InspectResponse ==
    /\ op = "invoke_with_tools"
    /\ pc = "InspectingResponse"
    /\ LET c == Inspect(resp.content) IN
          CASE c.kind = "final" ->
                /\ conversation' = Appended(conversation, <<resp>>)
                /\ returned' = resp
                /\ pc' = "Done"
                /\ UNCHANGED <<raised, calls, idx, tool_results_texts>>
            [] c.kind = "raise" ->
                /\ raised' = "TypeError"
                /\ pc' = "Raised"
                /\ UNCHANGED <<conversation, returned, calls, idx, tool_results_texts>>
            [] c.kind = "batch" ->
                /\ calls' = c.calls
                /\ idx' = 1
                /\ tool_results_texts' = <<>>
                /\ pc' = "ExecutingTools"
                /\ UNCHANGED <<conversation, returned, raised>>
    /\ UNCHANGED <<configVars, pipeVars, fnVars, op, view, env, fs, messages, max_tool_calls, tool_calls_done, resp,
                   modelCalls, executed, memo, run, firstRun, otherVars,
                   invoke_failures>>

\* llm.py:176 and llm.py:213: the two comparisons with the ceiling.
CeilingIgnored(done, ceiling) == FALSE
CeilingOffByOne(done, ceiling) == done > ceiling
CeilingReached(done, ceiling) == done >= ceiling

LimitNeverHit(done, ceiling) == FALSE
LimitHit(done, ceiling) == done >= ceiling

\* llm.py:183-193: one call of the batch.  call.get raises AttributeError
\* when the entry is no mapping, `name not in tool_map` raises TypeError
\* when the name cannot be hashed; an unknown name gives an error output; an
\* exception of the tool is caught and becomes {"error": str(e)} (inTool
\* says that it happened).
LoopOutcome(raisedExc, out, inTool, files) ==
    [raised |-> raisedExc # "", exc |-> raisedExc, out |-> out, inTool |-> inTool,
     files |-> files]

LoopCallUnknownAborts(call, files, e) ==
    IF ~IsDict(call) THEN LoopOutcome("AttributeError", <<>>, FALSE, files)
    ELSE LET name == DictGet(call, "name", None)
             given == DictGet(call, "args", EmptyObj)
             args == IF Truthy(given) THEN given ELSE EmptyObj
         IN  IF ~(IsStr(name) /\ name.s \in TOOL_NAMES)
             THEN LoopOutcome("KeyError", <<>>, FALSE, files)
             ELSE LET r == CallTool(name.s, args, files, e)
                  IN  LoopOutcome("", r.out, r.raised, r.files)

LoopCall(call, files, e) ==
    IF ~IsDict(call) THEN LoopOutcome("AttributeError", <<>>, FALSE, files)
    ELSE LET name == DictGet(call, "name", None)
             given == DictGet(call, "args", EmptyObj)
             args == IF Truthy(given) THEN given ELSE EmptyObj
         IN  IF name.kind \in {"array", "object"}
             THEN LoopOutcome("TypeError", <<>>, FALSE, files)
             ELSE IF ~(IsStr(name) /\ name.s \in TOOL_NAMES)
             THEN LoopOutcome("", [error |-> "unknown tool"], FALSE, files)
             ELSE LET r == CallTool(name.s, args, files, e)
                  IN  LoopOutcome("", r.out, r.raised, r.files)

\* "[Tool {name} result] {json.dumps(tool_output)}"
ToolResultText(name, output) == [seg |-> "toolresult", name |-> name, output |-> output]

\* llm.py:202  tool_calls_done += 1, whatever the output of the call was.
CountedUnlessError(done, output) == IF "error" \in DOMAIN output THEN done ELSE done + 1
Counted(done, output) == done + 1

\* llm.py:175-202: one iteration of the for loop below the ceiling.
ExecuteCall ==
    /\ op = "invoke_with_tools"
    /\ pc = "ExecutingTools"
    /\ idx <= Len(calls)
    /\ ~CeilingReached(tool_calls_done, max_tool_calls)
    /\ LET call == calls[idx]
           o == LoopCall(call, fs, env)
       IN  IF o.raised
           THEN /\ raised' = o.exc
                /\ pc' = "Raised"
                /\ UNCHANGED <<fs, tool_results_texts, tool_calls_done, idx, executed>>
           ELSE /\ fs' = o.files
                /\ tool_results_texts' =
                      Append(tool_results_texts,
                             ToolResultText(DictGet(call, "name", None), o.out))
                /\ executed' =
                      Append(executed, [call |-> call, output |-> o.out, inTool |-> o.inTool])
                /\ tool_calls_done' = Counted(tool_calls_done, o.out)
                /\ idx' = idx + 1
                /\ UNCHANGED <<raised, pc>>
    /\ UNCHANGED <<configVars, pipeVars, fnVars, op, view, env, messages, max_tool_calls, conversation, resp, calls,
                   returned, modelCalls, memo, run, firstRun, otherVars,
                   invoke_failures>>

\* The assistant messages of llm.py:207-209.
ResultMessagesReversed(texts) ==
    [k \in 1..Len(texts) |-> [role |-> "assistant", content |-> <<texts[Len(texts) + 1 - k]>>]]

RECURSIVE ResultMessages(_)
ResultMessages(texts) ==
    IF texts = <<>> THEN <<>>
    ELSE <<Message("assistant", <<Head(texts)>>)>> \o ResultMessages(Tail(texts))

\* llm.py:176-181 and 204-215: the for loop ends (exhausted, or broken off at
\* the ceiling); the response and the results are appended; at the ceiling
\* the response is returned, else the model is invoked again.
EndBatch ==
    /\ op = "invoke_with_tools"
    /\ pc = "ExecutingTools"
    /\ idx > Len(calls) \/ CeilingReached(tool_calls_done, max_tool_calls)
    /\ conversation' =
          Appended(conversation, <<resp>> \o ResultMessages(tool_results_texts))
    /\ IF LimitHit(tool_calls_done, max_tool_calls)
       THEN /\ returned' = resp
            /\ pc' = "Done"
       ELSE /\ pc' = "AwaitingModel"
            /\ UNCHANGED returned
    /\ UNCHANGED <<configVars, pipeVars, fnVars, op, view, env, fs, messages, max_tool_calls, tool_calls_done, resp,
                   calls, idx, tool_results_texts, raised, modelCalls, executed, memo,
                   run, firstRun, otherVars,
                   invoke_failures>>

\* Two invocations in a row: invoke_with_tools is called again with the
\* same messages, in the working directory the first call left.
InvokeAgain ==
    /\ op = "invoke_with_tools"
    /\ pc = "Done"
    /\ run = 1
    /\ run' = 2
    /\ firstRun' = [executed |-> executed, returned |-> returned]
    /\ conversation' = messages
    /\ tool_calls_done' = 0
    /\ resp' = NoResponse
    /\ calls' = <<>>
    /\ idx' = 0
    /\ tool_results_texts' = <<>>
    /\ returned' = NoResponse
    /\ modelCalls' = 0
    /\ executed' = <<>>
    /\ invoke_failures' = 0
    /\ pc' = "AwaitingModel"
    /\ UNCHANGED <<configVars, pipeVars, fnVars, op, view, env, fs, messages, max_tool_calls, raised, memo, otherVars>>

\* --------------------------------------------------- tool_dispatcher
\* graph.py:24-45: the update the node returns, or the exception it lets
\* through; a tool is called with no try around it.
tool_dispatcher(pending, files, e) ==
    IF ~Truthy(pending) THEN Returns(<<>>, files)
    ELSE IF ~IsDict(pending) THEN Raises("AttributeError", files)
    ELSE LET name == DictGet(pending, "name", None)
             args == DictGet(pending, "args", EmptyObj)
         IN  IF name.kind \in {"array", "object"} THEN Raises("TypeError", files)
             ELSE IF ~(IsStr(name) /\ name.s \in TOOL_NAMES)
             THEN Returns([tool_response |-> [error |-> "unknown tool"]], files)
             ELSE LET r == CallTool(name.s, args, files, e)
                  IN  IF r.raised THEN Raises(r.exc, r.files)
                      ELSE Returns([tool_response |-> r.out, last_tool_name |-> name.s],
                                   r.files)

Dispatch ==
    /\ op = "tool_dispatcher"
    /\ node.status = "called"
    /\ LET r == tool_dispatcher(pending_tool, fs, env) IN
          /\ fs' = r.files
          /\ node' = IF r.raised
                     THEN [status |-> "raised", update |-> <<>>, exc |-> r.exc]
                     ELSE [status |-> "returned", update |-> r.out, exc |-> ""]
    /\ UNCHANGED <<configVars, pipeVars, fnVars, op, view, env, loopVars, pending_tool, attempt_number, retry>>

\* -------------------------------------------------- resilient_invoke
\* What one attempt (llm.py:75-78) may end in: a message, or an exception of
\* _make_litellm (the client is not installed: every attempt raises it) or
\* of llm.invoke.
TransientFailures == {"BackendError", "TimeoutError"}
AttemptFailures ==
    IF _make_litellm(ChatLiteLLM) # "" THEN {_make_litellm(ChatLiteLLM)} ELSE TransientFailures

\* tenacity's stop_after_attempt(3)
ShouldStopOffByOne(n) == n > MAX_ATTEMPTS
ShouldStop(n) == n >= MAX_ATTEMPTS

\* tenacity's wait_exponential(multiplier=1, min=2, max=8) after attempt n
Max(a, b) == IF a >= b THEN a ELSE b
Min(a, b) == IF a <= b THEN a ELSE b
WaitExponential(n) == Max(Max(0, WAIT_MIN), Min(WAIT_MULTIPLIER * (2 ^ (n - 1)), WAIT_MAX))

\* The attempt returns: resilient_invoke returns its message.
AttemptSucceeds ==
    /\ op = "resilient_invoke"
    /\ retry.status = "attempting"
    /\ _make_litellm(ChatLiteLLM) = ""
    /\ \E i \in 1..Len(Responses) :
          retry' = [retry EXCEPT !.status = "returned",
                                 !.result = Message("assistant", Responses[i])]
    /\ UNCHANGED <<configVars, pipeVars, fnVars, op, view, env, fs, loopVars, pending_tool, node, attempt_number>>

\* The attempt raises: tenacity stops with RetryError (which carries the
\* failed attempt) once stop_after_attempt says so, else sleeps and retries.
AttemptFails ==
    /\ op = "resilient_invoke"
    /\ retry.status = "attempting"
    /\ \E f \in AttemptFailures :
          IF ShouldStop(attempt_number)
          THEN /\ retry' = [retry EXCEPT !.status = "raised",
                                         !.failures = Append(@, f),
                                         !.exc = RetryError(f)]
               /\ UNCHANGED attempt_number
          ELSE /\ retry' = [retry EXCEPT !.failures = Append(@, f),
                                         !.slept = Append(@, WaitExponential(attempt_number))]
               /\ attempt_number' = attempt_number + 1
    /\ UNCHANGED <<configVars, pipeVars, fnVars, op, view, env, fs, loopVars, pending_tool, node>>

\* ---------------------------------------------------------- the graph
\* graph.py:89-102: the entry point and the edges, every one of them added
\* with add_edge (none is conditional).
END == "__end__"
EntryPoint == "analyzer"
Edges ==
    { <<"analyzer", "planner">>, <<"planner", "tool_dispatcher">>,
      <<"tool_dispatcher", "planner">>, <<"planner", "agent">>,
      <<"agent", "generator">>, <<"generator", "runner">>, <<"runner", END>> }

\* The nodes the compiled graph runs in the superstep after the one in which
\* the nodes of ran have run: every target of an edge of theirs.
Successors(ran) == { m \in Nodes : \E n \in ran : <<n, m>> \in Edges }

\* The files the stages write (utils.py:95-111, nodes.py:105 and 133).
TestFile == File("tests", <<"test_generated", ".py">>, FALSE)
ReportFile == File(".", <<"test_report", ".txt">>, FALSE)

\* save_test_file and save_report: open(path, "w") raises OSError when the
\* working directory cannot be written.
save_file(file, files, disk) ==
    IF disk = "rw" THEN Returns(<<>>, files \cup {file}) ELSE Raises("OSError", files)

\* utils.py:29-53: the tree text, kept as the files it names.
get_file_tree(start_path, files) ==
    { RelPath(f, start_path) :
        f \in { g \in files :
                  /\ start_path = "." \/ g.dir = start_path
                  /\ g.dir = start_path \/ g.dir \notin IGNORED_DIRS
                  /\ g.name \notin IGNORED_FILES } }

\* utils.py:56-81: the lists get_all_files_list may return.  os.walk gives
\* the files of start_path before those of its subdirectories; the order
\* inside a directory is the platform's.
FilesLists(start_path, files) ==
    LET listed == get_all_files_list(start_path, files)
    IN  { q \in [1..Cardinality(listed) -> listed] :
            /\ \A i, j \in DOMAIN q : i # j => q[i] # q[j]
            /\ \A i, j \in DOMAIN q : i < j => ~(q[i].dir # "." /\ q[j].dir = ".") }

\* nodes.py:35-49: one file of the for loop.  outcome is what
\* resilient_invoke did: "returned", or "raised" after its attempts.
AnalysisOf(file_path) == [kind |-> "analysis", of |-> file_path]
AnalysisFailed == [kind |-> "[Analysis Failed]"]
Section(file_path, text) == [file |-> file_path, text |-> text]

analyze_file_aborting(project_context, file_path, outcome) ==
    IF outcome = "returned"
    THEN [raised |-> FALSE,
          project_context |-> [project_context EXCEPT
                                  !.sections = Append(@, Section(file_path, AnalysisOf(file_path)))]]
    ELSE [raised |-> TRUE, project_context |-> project_context]

analyze_file(project_context, file_path, outcome) ==
    [raised |-> FALSE,
     project_context |->
        [project_context EXCEPT
            !.sections = Append(@, Section(file_path,
                                           IF outcome = "returned" THEN AnalysisOf(file_path)
                                           ELSE AnalysisFailed))]]

\* The update of the state a superstep ends with: the keys its nodes returned.
Merge(st, up) ==
    [k \in DOMAIN st |->
        IF k = "keys" THEN st.keys \cup up.keys
        ELSE IF k \in up.keys THEN up[k] ELSE st[k]]

outsideGraph == <<configVars, fnVars, op, view, env, loopVars, otherVars>>

CallOutcomes == {"returned", "raised"}

\* A node of the superstep starts: the runtime hands every node of a
\* superstep to a worker at once, so that a node starts whatever the other
\* nodes of the superstep are doing.  analyze_codebase begins at
\* nodes.py:23-27.
StartNode ==
    /\ op = "pipeline"
    /\ graph_run.status = "running"
    /\ \E n \in Nodes :
          /\ tasks[n] = "scheduled"
          /\ tasks' = [tasks EXCEPT ![n] = "running"]
          /\ executions' = [executions EXCEPT ![n].started = @ + 1]
          /\ IF n = "analyzer"
             THEN \E q \in FilesLists(state.target_dir, fs) :
                     analysis' = [files_list |-> q, idx |-> 1,
                                  project_context |->
                                      [tree |-> get_file_tree(state.target_dir, fs),
                                       sections |-> <<>>],
                                  outcomes |-> <<>>]
             ELSE UNCHANGED analysis
    /\ UNCHANGED <<outsideGraph, fs, state, step, updates, graph_run, call_failed>>

\* The node ends: it returned, or it raised exc.
Finished(n) ==
    /\ tasks' = [tasks EXCEPT ![n] = "finished"]
    /\ executions' = [executions EXCEPT ![n].completed = @ + 1]
    /\ UNCHANGED graph_run

Failed(n, exc) ==
    /\ tasks' = [tasks EXCEPT ![n] = "raised"]
    /\ graph_run' = IF graph_run.status = "running"
                    THEN [status |-> "raised", exc |-> exc, node |-> n]
                    ELSE graph_run
    /\ UNCHANGED <<executions, updates>>

\* nodes.py:35-49: the next file of the list.
AnalyzeFile ==
    /\ op = "pipeline"
    /\ tasks["analyzer"] = "running"
    /\ analysis.idx <= Len(analysis.files_list)
    /\ \E outcome \in CallOutcomes :
          LET r == analyze_file(analysis.project_context,
                                analysis.files_list[analysis.idx], outcome)
          IN  /\ call_failed' = (call_failed \/ outcome = "raised")
              /\ IF r.raised
                 THEN /\ Failed("analyzer", "RetryError")
                      /\ UNCHANGED analysis
                 ELSE /\ analysis' = [analysis EXCEPT
                                         !.idx = @ + 1,
                                         !.project_context = r.project_context,
                                         !.outcomes = Append(@, outcome)]
                      /\ UNCHANGED <<tasks, graph_run, executions, updates>>
    /\ UNCHANGED <<outsideGraph, fs, state, step>>

\* nodes.py:51
AnalyzerReturns ==
    /\ op = "pipeline"
    /\ tasks["analyzer"] = "running"
    /\ analysis.idx > Len(analysis.files_list)
    /\ updates' = [updates EXCEPT !.keys = @ \cup {"file_list", "project_context"},
                                  !.file_list = analysis.files_list,
                                  !.project_context = analysis.project_context]
    /\ Finished("analyzer")
    /\ UNCHANGED <<outsideGraph, fs, state, step, analysis, call_failed>>

\* nodes.py:72  return {"test_plan": response.content}, added to the updates
\* of the superstep.
plan_tests_clearing_context(up) ==
    [up EXCEPT !.keys = @ \cup {"test_plan", "project_context"},
               !.test_plan = "plan",
               !.project_context = NoContext]

plan_tests(up) ==
    [up EXCEPT !.keys = @ \cup {"test_plan"},
               !.test_plan = "plan"]

\* nodes.py:54-72: plan_tests; an exception of resilient_invoke is not caught.
PlannerEnds ==
    /\ op = "pipeline"
    /\ tasks["planner"] = "running"
    /\ \E outcome \in CallOutcomes :
          /\ call_failed' = (call_failed \/ outcome = "raised")
          /\ IF outcome = "returned"
             THEN /\ updates' = plan_tests(updates)
                  /\ Finished("planner")
             ELSE Failed("planner", "RetryError")
    /\ UNCHANGED <<outsideGraph, fs, state, step, analysis>>

\* graph.py:24-45: tool_dispatcher on the state of the graph.
DispatcherEnds ==
    /\ op = "pipeline"
    /\ tasks["tool_dispatcher"] = "running"
    /\ LET r == tool_dispatcher(state.pending_tool, fs, env) IN
          /\ fs' = r.files
          /\ call_failed' = (call_failed \/ r.raised)
          /\ IF r.raised THEN Failed("tool_dispatcher", r.exc)
             ELSE /\ updates' =
                        IF ~Truthy(state.pending_tool) THEN updates
                        ELSE IF "last_tool_name" \in DOMAIN r.out
                        THEN [updates EXCEPT !.keys = @ \cup {"tool_response", "last_tool_name"},
                                             !.tool_response = r.out.tool_response,
                                             !.last_tool_name = r.out.last_tool_name]
                        ELSE [updates EXCEPT !.keys = @ \cup {"tool_response"},
                                             !.tool_response = r.out.tool_response]
                  /\ Finished("tool_dispatcher")
    /\ UNCHANGED <<outsideGraph, state, step, analysis>>

\* graph.py:49-75: call_model_node.  invoke_with_tools(messages) returns a
\* response, after running tools that leave their artifact or without, or
\* raises; the exception is caught and becomes llm_error.
FinalAnswer == Message("assistant", <<Prose>>)

\* graph.py:54-75: the update call_model_node returns for the messages of
\* the state, added to the updates of the superstep.
call_model_node(up, msgs, outcome, used_tool) ==
    IF msgs = <<>> THEN up
    ELSE IF outcome = "returned"
    THEN [up EXCEPT !.keys = @ \cup {"messages", "llm_output"},
                    !.messages = msgs \o <<FinalAnswer>>,
                    !.llm_output = FinalAnswer.content]
    ELSE [up EXCEPT !.keys = @ \cup {"llm_error"},
                    !.llm_error = "BackendError"]

AgentEnds ==
    /\ op = "pipeline"
    /\ tasks["agent"] = "running"
    /\ IF state.messages = <<>>
       THEN UNCHANGED <<updates, fs, call_failed>>
       ELSE \E outcome \in CallOutcomes, used_tool \in BOOLEAN :
               /\ fs' = IF used_tool
                        THEN save_intermediate(ArtifactFileList, fs, env.disk).files
                        ELSE fs
               /\ call_failed' = (call_failed \/ outcome = "raised")
               /\ updates' = call_model_node(updates, state.messages, outcome, used_tool)
    /\ Finished("agent")
    /\ UNCHANGED <<outsideGraph, state, step, analysis>>

\* nodes.py:75-107: generate_tests; neither an exception of resilient_invoke
\* nor one of save_test_file is caught.
GeneratorEnds ==
    /\ op = "pipeline"
    /\ tasks["generator"] = "running"
    /\ \E outcome \in CallOutcomes :
          LET saved == save_file(TestFile, fs, env.disk) IN
          /\ call_failed' = (call_failed \/ outcome = "raised")
          /\ IF outcome = "raised"
             THEN /\ Failed("generator", "RetryError")
                  /\ UNCHANGED fs
             ELSE IF saved.raised
             THEN /\ Failed("generator", saved.exc)
                  /\ UNCHANGED fs
             ELSE /\ fs' = saved.files
                  /\ updates' = [updates EXCEPT !.keys = @ \cup {"generated_test_code"},
                                               !.generated_test_code = "code"]
                  /\ Finished("generator")
    /\ UNCHANGED <<outsideGraph, state, step, analysis>>

\* nodes.py:110-135: run_tests_and_report.  A failure to start pytest is
\* caught and becomes the output; the files pytest leaves are in ignored
\* directories.  An exception of resilient_invoke or of save_report is not
\* caught.
TestOutputs == {"pytest output", "Execution Error"}

RunnerEnds ==
    /\ op = "pipeline"
    /\ tasks["runner"] = "running"
    /\ \E output \in TestOutputs, outcome \in CallOutcomes :
          LET saved == save_file(ReportFile, fs, env.disk) IN
          /\ call_failed' = (call_failed \/ outcome = "raised")
          /\ IF outcome = "raised"
             THEN /\ Failed("runner", "RetryError")
                  /\ UNCHANGED fs
             ELSE IF saved.raised
             THEN /\ Failed("runner", saved.exc)
                  /\ UNCHANGED fs
             ELSE /\ fs' = saved.files
                  /\ updates' = [updates EXCEPT !.keys = @ \cup {"test_results", "final_report"},
                                               !.test_results = output,
                                               !.final_report = "report"]
                  /\ Finished("runner")
    /\ UNCHANGED <<outsideGraph, state, step, analysis>>

\* The superstep ends when each of its nodes has returned: the updates are
\* written to the state, and the targets of the edges of its nodes are the
\* next superstep.  The run ends when there is none; it raises
\* GraphRecursionError when the limit of supersteps is reached with nodes
\* still to run.
EndSuperstep ==
    /\ op = "pipeline"
    /\ graph_run.status = "running"
    /\ \E n \in Nodes : tasks[n] = "finished"
    /\ \A n \in Nodes : tasks[n] \in {"idle", "finished"}
    /\ LET next == Successors({n \in Nodes : tasks[n] = "finished"}) IN
          /\ state' = Merge(state, updates)
          /\ updates' = BlankState
          /\ IF next = {}
             THEN /\ graph_run' = [graph_run EXCEPT !.status = "done"]
                  /\ tasks' = [n \in Nodes |-> "idle"]
                  /\ UNCHANGED step
             ELSE IF step >= RecursionLimit
             THEN /\ graph_run' = [status |-> "raised", exc |-> "GraphRecursionError",
                                   node |-> ""]
                  /\ tasks' = [n \in Nodes |-> "idle"]
                  /\ UNCHANGED step
             ELSE /\ step' = step + 1
                  /\ tasks' = [n \in Nodes |-> IF n \in next THEN "scheduled" ELSE "idle"]
                  /\ UNCHANGED graph_run
    /\ UNCHANGED <<outsideGraph, fs, executions, analysis, call_failed>>

\* The inputs of a run: the target directory (the working directory), and
\* the messages and the pending tool the caller may put into the state.
Repositories ==
    << [files |-> {}, disk |-> "rw"],
       [files |-> {FileA}, disk |-> "rw"],
       [files |-> {FileA, File(".", <<"b", ".js">>, FALSE), File(".", <<"logo", ".png">>, FALSE),
                   File(".git", <<"config">>, FALSE)},
        disk |-> "rw"],
       [files |-> {FileA}, disk |-> "ro"] >>

InputStates ==
    { [BlankState EXCEPT !.keys = {"target_dir"} \cup ks,
                         !.messages = IF "messages" \in ks THEN InputConversations[2] ELSE <<>>,
                         !.pending_tool = IF "pending_tool" \in ks THEN CallFileList ELSE None] :
        ks \in SUBSET {"messages", "pending_tool"} }

PipelineInit ==
    /\ op = "pipeline"
    /\ view = "exact"
    /\ DefaultConfig
    /\ FunctionIdle
    /\ \E r \in 1..Len(Repositories) :
          /\ fs = Repositories[r].files
          /\ env = [disk |-> Repositories[r].disk, ollama |-> "absent"]
    /\ LoopIdle
    /\ NodeIdle
    /\ RetryIdle
    /\ state \in InputStates
    /\ step = 1
    /\ tasks = [n \in Nodes |-> IF n = EntryPoint THEN "scheduled" ELSE "idle"]
    /\ updates = BlankState
    /\ graph_run = [status |-> "running", exc |-> "", node |-> ""]
    /\ executions = [n \in Nodes |-> [started |-> 0, completed |-> 0]]
    /\ analysis = NoAnalysis
    /\ call_failed = FALSE

PipelineNext ==
    \/ StartNode
    \/ AnalyzeFile
    \/ AnalyzerReturns
    \/ PlannerEnds
    \/ DispatcherEnds
    \/ AgentEnds
    \/ GeneratorEnds
    \/ RunnerEnds
    \/ EndSuperstep

\* A run of the compiled graph.  The runtime runs every node it has
\* scheduled and every node returns or raises.
PipelineSpec == PipelineInit /\ [][PipelineNext]_vars /\ WF_vars(PipelineNext)

\* ------------------------------------------------- specifications
LoopNext ==
    \/ InvokeModel
    \/ ModelRaises
    \/ InspectResponse
    \/ ExecuteCall
    \/ EndBatch

Next ==
    \/ LoopNext
    \/ Dispatch
    \/ AttemptSucceeds
    \/ AttemptFails

Spec == Init /\ [][Next]_vars

\* Two invocations of invoke_with_tools in a row, with a model that answers
\* every call.
TwiceInit ==
    /\ view = "exact"
    /\ InitLoop

TwiceNext ==
    \/ InvokeModel
    \/ InspectResponse
    \/ ExecuteCall
    \/ EndBatch
    \/ InvokeAgain

TwiceSpec == TwiceInit /\ [][TwiceNext]_vars

\* The control flow of one invocation whose model calls and tool calls all
\* return.  The conversation, the model's answers and the number of model
\* calls are not kept (nothing in the loop reads them), so that a run with
\* unboundedly many model calls is a cycle of finitely many states.  The
\* loop runs in one thread and every step that can be taken is taken.
ControlInit ==
    /\ view = "control"
    /\ InitLoop

ControlNext ==
    \/ InvokeModel
    \/ InspectResponse
    \/ ExecuteCall
    \/ EndBatch

ControlSpec == ControlInit /\ [][ControlNext]_vars /\ WF_vars(ControlNext)

\* ------------------------------------ functions called on their own
\* tools.py:234-289  validate_files_selection.
\* str(x) of the value item.get("path", "") gives.
PyStr(v) ==
    CASE v.kind = "string" -> v.s
      [] v.kind = "null" -> "None"
      [] OTHER -> "repr"

\* str.strip() of the path texts used here.
StripText(s) ==
    CASE s = "  " -> ""
      [] s = " src/b.js " -> "src/b.js"
      [] OTHER -> s

\* (Path(repo_root) / path).resolve() for the root ".": whether it lies
\* inside the root (tools.py:254-258 and 267) and os.path.relpath of it.
ResolvePath(repo_root, path) ==
    CASE path \in {"a.py", "./a.py"} -> [inside |-> TRUE, rel |-> "a.py"]
      [] path \in {"../x.py", "/etc/passwd"} -> [inside |-> FALSE, rel |-> path]
      [] OTHER -> [inside |-> TRUE, rel |-> path]

\* tools.py:273-285: the entry appended for an accepted item.
ValidatedEntry(item, rel) ==
    LET reason == DictGet(item, "reason", Str(""))
        test_type == DictGet(item, "test_type", None)
    IN  [path |-> rel,
         reason |-> IF IsStr(reason) THEN reason.s ELSE "",
         test_type |-> IF IsStr(test_type) /\ test_type.s \in {"unit", "integration"}
                       THEN test_type.s ELSE "unit"]

\* tools.py:245-288: the for loop from item i on.  The cap is tested after
\* an entry has been appended.
RECURSIVE ValidateFrom(_, _, _, _, _, _)
ValidateFrom(selection, repo_root, max_files, i, validated, seen) ==
    IF i > Len(selection) THEN validated
    ELSE LET item == selection[i]
             skipped == ValidateFrom(selection, repo_root, max_files, i + 1, validated, seen)
         IN  IF ~IsDict(item) THEN skipped
             ELSE LET path == StripText(PyStr(DictGet(item, "path", Str(""))))
                      cand == ResolvePath(repo_root, path)
                      grown == Append(validated, ValidatedEntry(item, cand.rel))
                  IN  IF path = "" THEN skipped
                      ELSE IF ~cand.inside THEN skipped
                      ELSE IF cand.rel \in seen THEN skipped
                      ELSE IF Len(grown) >= max_files THEN grown
                      ELSE ValidateFrom(selection, repo_root, max_files, i + 1, grown,
                                        seen \cup {cand.rel})

validate_files_selection(selection, repo_root, max_files) ==
    ValidateFrom(selection, repo_root, max_files, 1, <<>>, {})

\* The entries a planner's selection may hold.
SelectionItems ==
    << Str("a.py"),
       Obj([reason |-> Str("no path")]),
       Obj([path |-> Str("  ")]),
       Obj([path |-> Str("a.py"), reason |-> Str("core"), test_type |-> Str("integration")]),
       Obj([path |-> Str("./a.py")]),
       Obj([path |-> Str("../x.py"), test_type |-> Str("unit")]),
       Obj([path |-> Str(" src/b.js "), reason |-> Num(1), test_type |-> Str("e2e")]),
       Obj([path |-> Null]) >>

MaxSelection == 3
MaxFiles == 3

Selections ==
    UNION { [1..n -> {SelectionItems[k] : k \in 1..Len(SelectionItems)}] : n \in 0..MaxSelection }

\* The trees a tool is called in: text files, one of them under an ignored
\* directory and one with an ignored name, and exactly one binary file,
\* binary by its extension or by a null byte.
TextFiles ==
    {FileA, File("src", <<"b", ".js">>, FALSE), File(".git", <<"config">>, FALSE),
     File(".", <<"thumbs", ".db">>, FALSE)}
BinaryFiles == {File(".", <<"logo", ".png">>, FALSE), File(".", <<"data", ".dat">>, TRUE)}
Trees == { t \cup {b} : t \in SUBSET TextFiles, b \in BinaryFiles }

\* The tools and arguments they are called with.
FourFiles == Arr(<<Str("a.py"), Str("b.js"), Str("c.py"), Str("d.py")>>)
ThreeFiles == Arr(<<Str("a.py"), Str("b.js"), Str("c.py")>>)
ToolArguments ==
    << [name |-> "file_list", args |-> Obj([repo_root |-> Str(".")])],
       [name |-> "file_reader", args |-> Obj([path |-> Str("a.py")])],
       [name |-> "file_reader", args |-> Obj([path |-> Str("missing.py")])],
       [name |-> "file_reader", args |-> EmptyObj],
       [name |-> "cost_estimator",
        args |-> Obj([files |-> FourFiles, runtime_per_test_s |-> Dec(30, 1),
                      cost_per_second_usd |-> Dec(5, 4)])],
       [name |-> "cost_estimator",
        args |-> Obj([files |-> ThreeFiles, runtime_per_test_s |-> Dec(25, 1)])],
       [name |-> "cost_estimator", args |-> Obj([files |-> ThreeFiles])],
       [name |-> "cost_estimator",
        args |-> Obj([files |-> ThreeFiles, runtime_per_test_s |-> Str("fast")])],
       [name |-> "model_runner", args |-> Obj([prompt |-> Str("hi")])] >>

\* The arguments estimate_cost_for_files is called with.
MaxFileCount == 4
Runtimes == {Num(3), Dec(5, 1), Dec(25, 1), Num(0), Dec(-15, 1)}
Costs == {Dec(5, 4), Dec(14, 7), Num(0), Dec(-5, 4)}

FunctionsInit ==
    /\ view = "exact"
    /\ PipelineIdle
    /\ DefaultConfig
    /\ LoopIdle
    /\ NodeIdle
    /\ RetryIdle
    /\ fn_result = NotCalled
    /\ \/ /\ op = "tool"
          /\ \E t \in Trees, d \in {"rw", "ro"} :
                /\ fs = t
                /\ env = [disk |-> d, ollama |-> "text"]
          /\ \E a \in 1..Len(ToolArguments) : fn_args = ToolArguments[a]
       \/ /\ op = "estimate_cost_for_files"
          /\ fs = {}
          /\ env = [disk |-> "rw", ollama |-> "absent"]
          /\ \E count \in 0..MaxFileCount, r \in Runtimes, c \in Costs :
                fn_args = [count |-> count, runtime_per_test_s |-> r,
                           cost_per_second_usd |-> c]
       \/ /\ op = "validate_files_selection"
          /\ fs = {FileA}
          /\ env = [disk |-> "rw", ollama |-> "absent"]
          /\ \E sel \in Selections, m \in 0..MaxFiles :
                fn_args = [selection |-> sel, repo_root |-> ".", max_files |-> m]

functionFrame == <<configVars, pipeVars, op, view, env, loopVars, otherVars, fn_args>>

\* tool_map[name](args), called on its own.
ApplyTool ==
    /\ op = "tool"
    /\ ~fn_result.done
    /\ LET r == CallTool(fn_args.name, fn_args.args, fs, env) IN
          /\ fn_result' = [done |-> TRUE, value |-> r]
          /\ fs' = r.files
    /\ UNCHANGED functionFrame

ApplyEstimate ==
    /\ op = "estimate_cost_for_files"
    /\ ~fn_result.done
    /\ fn_result' =
          [done |-> TRUE,
           value |-> estimate_cost_for_files(fn_args.count, fn_args.runtime_per_test_s,
                                             fn_args.cost_per_second_usd)]
    /\ UNCHANGED <<functionFrame, fs>>

ApplyValidate ==
    /\ op = "validate_files_selection"
    /\ ~fn_result.done
    /\ fn_result' =
          [done |-> TRUE,
           value |-> validate_files_selection(fn_args.selection, fn_args.repo_root,
                                              fn_args.max_files)]
    /\ UNCHANGED <<functionFrame, fs>>

FunctionsNext ==
    \/ ApplyTool
    \/ ApplyEstimate
    \/ ApplyValidate

FunctionsSpec == FunctionsInit /\ [][FunctionsNext]_vars

\* ------------------------------------------------------------ claims
Loop == op = "invoke_with_tools"

\* The text holds an embedded JSON object: an object document, or "{"
\* followed by "}" with white space only between them.
ContainsObject(content) ==
    \/ \E i \in 1..Len(content) : content[i].seg = "json" /\ content[i].val.kind = "object"
    \/ \E i, j \in 1..Len(content) :
          /\ i < j
          /\ content[i].seg = "open"
          /\ content[j].seg = "close"
          /\ \A k \in (i + 1)..(j - 1) : content[k].seg = "ws"

\* The response requests tool calls, each of them a mapping.
RequestedCalls(r) == Inspect(r.content)
RequestsCalls(r) ==
    /\ r.role = "assistant"
    /\ RequestedCalls(r).kind = "batch"
    /\ \A k \in 1..Len(RequestedCalls(r).calls) : IsDict(RequestedCalls(r).calls[k])

\* The name of the call is text (or absent) and names no tool of the registry.
UnknownName(call) ==
    /\ IsDict(call)
    /\ DictGet(call, "name", None).kind \in {"string", "null"}
    /\ ~(IsStr(DictGet(call, "name", None)) /\ DictGet(call, "name", None).s \in TOOL_NAMES)

\* The call names a tool of the registry and gives it a mapping of arguments.
RegisteredCall(call) ==
    /\ IsDict(call)
    /\ IsStr(DictGet(call, "name", None))
    /\ DictGet(call, "name", None).s \in TOOL_NAMES
    /\ IsDict(DictGet(call, "args", EmptyObj))

\* The messages of the conversation that carry a tool result.
ToolResultCount(conv) ==
    Cardinality({k \in 1..Len(conv) :
                    /\ conv[k].content # <<>>
                    /\ conv[k].content[1].seg = "toolresult"})

\* C1: whenever the first response of the model holds no embedded JSON
\* object, invoke_with_tools returns exactly that response, the tool counter
\* is still 0, no tool ran and no tool-result message was appended.
C1_NoObjectIsFinalAnswer ==
    (/\ Loop
     /\ modelCalls = 1
     /\ resp.role = "assistant"
     /\ pc # "InspectingResponse"
     /\ ~ContainsObject(resp.content))
    => (/\ pc = "Done"
        /\ returned = resp
        /\ tool_calls_done = 0
        /\ executed = <<>>
        /\ ToolResultCount(conversation) = 0)

\* C2: the tool-call counter of an invocation starts at 0, never decreases
\* and is never reset, grows by one per executed call, and for a ceiling
\* >= 0 never exceeds max_tool_calls; it counts the tools executed over
\* all batches.
C2_CounterWithinCeiling ==
    /\ tool_calls_done = 0
    /\ [][Loop =>
            /\ tool_calls_done' >= tool_calls_done
            /\ tool_calls_done' <= tool_calls_done + 1
            /\ Len(executed') = tool_calls_done'
            /\ max_tool_calls >= 0 => tool_calls_done' <= max_tool_calls]_vars

\* C2 witness: the ceiling is reached by calls of two batches.
C2_Witness ==
    /\ Loop
    /\ pc = "Done"
    /\ max_tool_calls = 2
    /\ modelCalls = 2
    /\ tool_calls_done = max_tool_calls
    /\ Len(tool_results_texts) = 1

\* C3: every invocation whose model calls and tool calls return ends (it
\* returns, or raises).
C3_Terminates == <>(pc \in {"Done", "Raised"})

\* C4: a batch that starts with the counter at (or above) the ceiling
\* executes none of its tools: the next step returns the pending response,
\* and appended only that response.
C4_NoToolAtCeiling ==
    [][(/\ Loop
        /\ pc = "ExecutingTools"
        /\ idx = 1
        /\ tool_calls_done >= max_tool_calls)
       => (/\ pc' = "Done"
           /\ returned' = resp
           /\ tool_calls_done' = tool_calls_done
           /\ executed' = executed
           /\ fs' = fs
           /\ conversation' = conversation \o <<resp>>)]_vars

\* C4 witness: a batch of calls was requested under ceiling 0 and the
\* invocation returned the request with nothing executed.
C4_Witness ==
    /\ Loop
    /\ pc = "Done"
    /\ max_tool_calls = 0
    /\ Len(calls) >= 1
    /\ returned = resp
    /\ executed = <<>>

\* The counter when the current batch started, and the budget it had.
BatchBase == tool_calls_done - Len(tool_results_texts)
BatchBudget == IF max_tool_calls > BatchBase THEN max_tool_calls - BatchBase ELSE 0

\* C5: once a batch of more (well-formed) calls than the remaining budget
\* has been handled, exactly its first (ceiling - counter) calls were
\* executed, in the order given, the invocation has returned the requesting
\* response unchanged, and nothing more can happen: the model is not
\* invoked again and no dropped call runs later.
C5_OverBudgetBatchTruncated ==
    (/\ Loop
     /\ pc \notin {"InspectingResponse", "ExecutingTools"}
     /\ RequestsCalls(resp)
     /\ calls = RequestedCalls(resp).calls
     /\ Len(calls) > BatchBudget)
    => (/\ pc = "Done"
        /\ returned = resp
        /\ Len(tool_results_texts) = BatchBudget
        /\ Len(executed) = BatchBase + BatchBudget
        /\ \A k \in 1..BatchBudget :
              /\ executed[BatchBase + k].call = calls[k]
              /\ tool_results_texts[k].output = executed[BatchBase + k].output
        /\ ~ENABLED LoopNext)

\* C5 witness: a second batch of three calls met a budget of one.
C5_Witness ==
    /\ Loop
    /\ pc = "Done"
    /\ RequestsCalls(resp)
    /\ returned = resp
    /\ BatchBase = 1
    /\ BatchBudget = 1
    /\ Len(calls) = 3

\* The first response of this invocation, once it is in the conversation.
FirstResponse == conversation[Len(messages) + 1]

\* C6: when the first response requests k calls, k below the ceiling, and
\* the second response holds no JSON object, the invocation returns the
\* second response with the counter at k, having executed exactly the k
\* calls and extended the conversation by the request, the k results and
\* the final response.
C6_ToolsThenFinalAnswer ==
    (/\ Loop
     /\ modelCalls = 2
     /\ pc # "InspectingResponse"
     /\ Len(conversation) > Len(messages)
     /\ RequestsCalls(FirstResponse)
     /\ Len(RequestedCalls(FirstResponse).calls) < max_tool_calls
     /\ resp # FirstResponse
     /\ resp.role = "assistant"
     /\ ~ContainsObject(resp.content))
    => LET k == Len(RequestedCalls(FirstResponse).calls) IN
        /\ pc = "Done"
        /\ returned = resp
        /\ tool_calls_done = k
        /\ Len(executed) = k
        /\ \A c \in 1..k : executed[c].call = RequestedCalls(FirstResponse).calls[c]
        /\ conversation =
              messages \o <<FirstResponse>> \o ResultMessages(tool_results_texts) \o <<resp>>
        /\ Len(tool_results_texts) = k

\* C7: the second of two invocations with the same messages and a model
\* that is a function of the conversation executes the same tool calls with
\* the same results and returns the same content as the first.
C7_SecondRunRepeatsFirst ==
    (Loop /\ run = 2 /\ pc = "Done")
    => (/\ executed = firstRun.executed
        /\ returned.content = firstRun.returned.content)

\* C8: a call whose name is not in the registry gives an error result and
\* does not abort.  In invoke_with_tools the step that handles it appends
\* the error result, counts the call and goes on with the batch; a
\* tool_dispatcher whose pending tool has such a name returns a
\* tool_response holding the error.
C8_UnknownToolIsAnErrorResult ==
    /\ [][(/\ Loop
           /\ pc = "ExecutingTools"
           /\ idx <= Len(calls)
           /\ tool_calls_done < max_tool_calls
           /\ UnknownName(calls[idx]))
          => (/\ pc' = "ExecutingTools"
              /\ raised' = ""
              /\ idx' = idx + 1
              /\ tool_calls_done' = tool_calls_done + 1
              /\ Len(tool_results_texts') = Len(tool_results_texts) + 1
              /\ "error" \in DOMAIN tool_results_texts'[Len(tool_results_texts')].output
              /\ fs' = fs)]_vars
    /\ [](op = "tool_dispatcher" /\ node.status # "called" /\ UnknownName(pending_tool)
          => /\ node.status = "returned"
             /\ "tool_response" \in DOMAIN node.update
             /\ "error" \in DOMAIN node.update.tool_response)

\* C8 witness: an unknown tool was answered with an error and the next call
\* of the batch was executed after it.
C8_Witness ==
    /\ Loop
    /\ \E k \in 1..Len(executed) :
          /\ k < Len(executed)
          /\ UnknownName(executed[k].call)
          /\ "error" \in DOMAIN executed[k].output
          /\ Len(tool_results_texts) >= 2

\* C9: no registered tool raises on a mapping of arguments, and neither
\* dispatch path is aborted by a failing tool.
C9_ToolsNeverRaise ==
    /\ \A k \in 1..Len(executed) :
          RegisteredCall(executed[k].call) => ~executed[k].inTool
    /\ (op = "tool_dispatcher" /\ RegisteredCall(pending_tool)) => node.status # "raised"
    /\ Loop /\ pc = "Raised" => raised \notin {"ValueError", "OSError", "RuntimeError"}

\* C10: resilient_invoke makes at most 3 attempts; it returns the message
\* of the first attempt that succeeds and attempts nothing after it; after
\* 3 failed attempts it raises, carrying the failure of the third, returns
\* no value and attempts nothing more.
C10_AtMostThreeAttempts ==
    op = "resilient_invoke" =>
        /\ attempt_number <= 3
        /\ Len(retry.failures) <= 3
        /\ retry.status \in {"attempting", "returned", "raised"}
        /\ retry.status = "attempting" => Len(retry.failures) = attempt_number - 1
        /\ retry.status = "returned" =>
              /\ retry.result.role = "assistant"
              /\ Len(retry.failures) = attempt_number - 1
              /\ retry.exc = NoError
              /\ ~ENABLED (AttemptSucceeds \/ AttemptFails)
        /\ retry.status = "raised" <=> Len(retry.failures) = 3
        /\ retry.status = "raised" =>
              /\ retry.result = NoResponse
              /\ retry.exc.last_attempt = retry.failures[3]
              /\ ~ENABLED (AttemptSucceeds \/ AttemptFails)

\* C10 witness: the third attempt failed with a timeout after two backend
\* failures and the call raised.
C10_Witness ==
    /\ op = "resilient_invoke"
    /\ retry.status = "raised"
    /\ retry.failures = <<"BackendError", "BackendError", "TimeoutError">>
    /\ retry.slept = <<2, 2>>

\* C11: resilient_invoke does not retry a configuration error: when an
\* attempt fails because the model client is unavailable (_make_litellm
\* raises), that attempt is the only one, nothing is slept and the error is
\* raised at once; only transient failures are retried.
C11_ConfigurationErrorNotRetried ==
    op = "resilient_invoke" =>
        \A k \in 1..Len(retry.failures) :
            retry.failures[k] \notin TransientFailures =>
                /\ k = 1
                /\ Len(retry.failures) = 1
                /\ retry.slept = <<>>
                /\ retry.status = "raised"
                /\ retry.exc.last_attempt = retry.failures[k]

\* C12: a model call made inside invoke_with_tools absorbs transient
\* failures: a transient failure reaches the caller of invoke_with_tools
\* only after the call was attempted MAX_ATTEMPTS times.
C12_LoopAbsorbsTransientFailures ==
    (Loop /\ pc = "Raised" /\ raised \in TransientFailures) =>
        invoke_failures >= MAX_ATTEMPTS

\* A list is another one with nothing or more appended.
IsPrefix(a, b) == Len(a) <= Len(b) /\ SubSeq(b, 1, Len(a)) = a

\* C20: conversations are append-only: every step of invoke_with_tools
\* leaves the conversation with the previous conversation as a prefix, the
\* caller's list is not changed and is a prefix of every conversation.
C20_ConversationAppendOnly ==
    [][Loop => /\ IsPrefix(conversation, conversation')
               /\ messages' = messages
               /\ IsPrefix(messages, conversation)
               /\ IsPrefix(messages', conversation')]_vars

\* C20 witness: a response that requested a tool, its result and a further
\* response were appended to the caller's messages.
C20_Witness ==
    /\ Loop
    /\ pc = "Done"
    /\ modelCalls >= 2
    /\ Len(conversation) >= Len(messages) + 3
    /\ ToolResultCount(conversation) >= 1

\* The run of the graph has ended with its terminal state: no node is
\* scheduled and nothing was raised.
Terminal == graph_run.status = "done" /\ \A n \in Nodes : tasks[n] = "idle"

\* llm.invoke was reached by an attempt of resilient_invoke.
LlmInvoked ==
    /\ _make_litellm(ChatLiteLLM) = ""
    /\ retry.status = "returned" \/ Len(retry.failures) > 0

\* C13: credential validation precedes every network call: with a model
\* whose name starts with a prefix of the provider table and whose
\* credential variable is absent, no execution reaches llm.invoke.
C13_CredentialCheckedBeforeModelCall ==
    (/\ op = "resilient_invoke"
     /\ RequiredCredential(LLM_MODEL) # ""
     /\ RequiredCredential(LLM_MODEL) \notin environ
     /\ validate_environment(LLM_MODEL, environ) = "exit")
    => ~LlmInvoked

Stages == {"analyzer", "planner", "generator", "runner"}

\* C14: in every run of the graph the four stages execute in the order
\* analyze, plan, generate, run-and-report: generate never starts before
\* plan has completed, run-and-report never before generate has completed,
\* each stage executes at most once, and the terminal state is entered only
\* after run-and-report.
C14_StagesInOrderOnce ==
    op = "pipeline" =>
        /\ \A n \in Stages : executions[n].started <= 1
        /\ executions["planner"].started >= 1 => executions["analyzer"].completed >= 1
        /\ executions["generator"].started >= 1 => executions["planner"].completed >= 1
        /\ executions["runner"].started >= 1 => executions["generator"].completed >= 1
        /\ Terminal => executions["runner"].completed >= 1

\* A node of the run raised.
NodeRaised == graph_run.status = "raised" /\ graph_run.node \in Nodes

\* C15: every run of the graph in which all model calls and tool calls
\* return (and no node raises) eventually reaches the terminal state with
\* no node left scheduled.
C15_RunReachesTerminalState ==
    op = "pipeline" => <>(Terminal \/ call_failed \/ NodeRaised)

\* C16: the two modes out of the planning stage are alternatives: the tool
\* dispatcher and the agent never follow the same planner turn, and the
\* agent path executes at most once per run.
C16_DispatcherAndAgentAreAlternatives ==
    op = "pipeline" =>
        /\ ~(tasks["tool_dispatcher"] # "idle" /\ tasks["agent"] # "idle")
        /\ executions["agent"].started <= 1

\* C17: execution is strictly sequential: at most one node is scheduled in
\* a step and at most one node is active (one model call or tool execution
\* in flight, one stage at the shared state) in every reachable state.
C17_OneNodeAtATime ==
    op = "pipeline" =>
        /\ Cardinality({n \in Nodes : tasks[n] # "idle"}) <= 1
        /\ Cardinality({n \in Nodes : tasks[n] = "running"}) <= 1

\* The section analyze_codebase owes a file, by what the model call did.
SectionOwed(file_path, outcome) ==
    Section(file_path, IF outcome = "raised" THEN AnalysisFailed ELSE AnalysisOf(file_path))

\* C18: a model failure for a file never aborts analyze_codebase: the
\* files are processed one at a time in file-list order, the stage
\* completes, project_context holds exactly one section per listed file in
\* that order (the failed marker for a failing file, the analysis text for
\* every other) and file_list is the list as listed.
C18_AnalysisSurvivesFileFailures ==
    op = "pipeline" =>
        /\ tasks["analyzer"] # "raised"
        /\ graph_run.node # "analyzer"
        /\ executions["analyzer"].started >= 1 =>
              /\ analysis.idx = Len(analysis.outcomes) + 1
              /\ Len(analysis.project_context.sections) = Len(analysis.outcomes)
              /\ \A k \in 1..Len(analysis.outcomes) :
                    analysis.project_context.sections[k] =
                        SectionOwed(analysis.files_list[k], analysis.outcomes[k])
        /\ executions["analyzer"].completed >= 1 =>
              /\ Len(analysis.outcomes) = Len(analysis.files_list)
              /\ "file_list" \in state.keys \cup updates.keys
        /\ "file_list" \in updates.keys =>
              /\ updates.file_list = analysis.files_list
              /\ updates.project_context = analysis.project_context
        /\ "file_list" \in state.keys =>
              /\ state.file_list = analysis.files_list
              /\ state.project_context = analysis.project_context

\* C18 witness: of two files the first failed and the second did not, and
\* the stage has returned the list and both sections.
C18_Witness ==
    /\ op = "pipeline"
    /\ "project_context" \in state.keys
    /\ Len(state.file_list) = 2
    /\ analysis.outcomes = <<"raised", "returned">>
    /\ state.project_context.sections[1].text = AnalysisFailed
    /\ state.project_context.sections[2].text = AnalysisOf(state.file_list[2])

\* A stage other than analyze raised.
StageFailed == graph_run.status = "raised" /\ graph_run.node \in {"planner", "generator", "runner"}

\* C19: a failure of the plan, generate or report stage aborts the run: no
\* node starts or ends after it and no artifact is written after it; after a
\* plan failure the generated test file and the report were never written
\* and test_plan, generated_test_code, test_results and final_report are
\* unset.
C19_StageFailureAbortsRun ==
    /\ [](graph_run.status = "raised" /\ graph_run.node = "planner" =>
             /\ TestFile \notin fs
             /\ ReportFile \notin fs
             /\ state.keys \cap {"test_plan", "generated_test_code", "test_results",
                                  "final_report"} = {})
    /\ [][StageFailed => /\ fs' = fs
                          /\ state' = state
                          /\ executions' = executions]_vars

\* The first balanced top-level {...} block of the text, parsed: the first
\* object document, or the empty object of a "{" closed by the next brace;
\* None when the text has no such block.
FirstBalanced(content) ==
    LET i == FirstOpen(content) IN
    IF i = 0 THEN None
    ELSE IF content[i].seg = "json" THEN content[i].val
    ELSE IF \E j \in (i + 1)..Len(content) :
               /\ content[j].seg = "close"
               /\ \A k \in (i + 1)..(j - 1) : content[k].seg = "ws"
    THEN EmptyObj
    ELSE None

\* C26: a first response that parses as a whole is used as parsed; one that
\* does not, and whose first balanced {...} block is a request for tool
\* calls, is handled as that request: under a positive ceiling its calls are
\* the batch and the first of them is executed.
C26_FirstBalancedObjectIsUsed ==
    (/\ Loop
     /\ modelCalls = 1
     /\ resp.role = "assistant"
     /\ pc # "InspectingResponse"
     /\ max_tool_calls > 0)
    => /\ JsonLoads(resp.content).ok
          => Inspect(resp.content) = Classify(JsonLoads(resp.content).val)
       /\ (/\ ~JsonLoads(resp.content).ok
           /\ Classify(FirstBalanced(resp.content)).kind = "batch"
           /\ Classify(FirstBalanced(resp.content)).calls # <<>>)
          => /\ calls = Classify(FirstBalanced(resp.content)).calls
             /\ pc = "ExecutingTools" \/ executed # <<>>
             /\ executed # <<>> => executed[1].call = calls[1]

\* The structured payload of a text as C26 describes it: the whole text
\* parsed, else its first balanced block.
Payload(content) ==
    IF JsonLoads(content).ok THEN JsonLoads(content).val ELSE FirstBalanced(content)

\* The payload is malformed or no tool request: nothing parses, the value
\* is no object, the object has neither a tool_call mapping nor a tool_calls
\* list, or its tool_calls list holds an entry that is no mapping.
NotAToolRequest(content) ==
    LET p == Payload(content) IN
    \/ p = None
    \/ ~IsDict(p)
    \/ /\ IsDict(p)
       /\ ~IsDict(DictGet(p, "tool_call", None))
       /\ \/ ~IsList(DictGet(p, "tool_calls", None))
          \/ \E k \in 1..Len(DictGet(p, "tool_calls", None).items) :
                ~IsDict(DictGet(p, "tool_calls", None).items[k])

\* C27: once a first response whose payload is malformed or no tool request
\* has been handled, the invocation has returned that response, executed no
\* tool, raised nothing and not invoked the model again.
C27_MalformedPayloadIsFinalAnswer ==
    (/\ Loop
     /\ modelCalls = 1
     /\ resp.role = "assistant"
     /\ pc \notin {"InspectingResponse", "ExecutingTools"}
     /\ NotAToolRequest(resp.content))
    => (/\ pc = "Done"
        /\ raised = ""
        /\ returned = resp
        /\ executed = <<>>
        /\ tool_calls_done = 0)

\* C25: the step that ends a batch appends to the conversation the
\* tool-requesting response and then, for each call executed in the batch,
\* in the order of the request, one assistant message labeled with the name
\* of that call and carrying its result; as many result messages as calls
\* were executed in the batch, and nothing else.
C25_BatchAppendsRequestThenResults ==
    [][(/\ Loop
        /\ pc = "ExecutingTools"
        /\ pc' \in {"Done", "AwaitingModel"})
       => LET n == Len(executed) - BatchBase IN
          /\ n >= 0
          /\ n <= Len(calls)
          /\ \A k \in 1..n : executed[BatchBase + k].call = calls[k]
          /\ conversation' =
                conversation \o <<resp>>
                \o [k \in 1..n |->
                       [role |-> "assistant",
                        content |-> <<[seg |-> "toolresult",
                                       name |-> DictGet(calls[k], "name", None),
                                       output |-> executed[BatchBase + k].output]>>]]]_vars

\* C25 witness: a batch of three calls with three different tools was
\* executed whole and its request and three results are in the conversation.
C25_Witness ==
    /\ Loop
    /\ pc = "Done"
    /\ Len(calls) = 3
    /\ Len(tool_results_texts) = 3
    /\ Len(conversation) = Len(messages) + 4
    /\ conversation[Len(messages) + 1] = resp
    /\ conversation[Len(messages) + 2].content[1].name # conversation[Len(messages) + 3].content[1].name

\* C30: every call the loop attempts adds exactly one to the counter,
\* whatever its result (an unknown tool, a tool that raised, a tool that
\* returned), and at every batch boundary the counter is the number of
\* tool-result messages appended to the conversation so far.
C30_EveryAttemptCounts ==
    /\ [][(Loop /\ Len(executed') = Len(executed) + 1)
          => tool_calls_done' = tool_calls_done + 1]_vars
    /\ [](Loop /\ pc \in {"AwaitingModel", "InspectingResponse", "Done"}
          => tool_calls_done = ToolResultCount(conversation))

\* C30 witness: an invocation ended with three counted calls in two
\* batches, one of them to an unknown tool and one whose tool raised.
C30_Witness ==
    /\ Loop
    /\ pc = "Done"
    /\ modelCalls = 2
    /\ tool_calls_done = 3
    /\ ToolResultCount(conversation) = 3
    /\ \E k \in 1..Len(executed) :
          UnknownName(executed[k].call) /\ "error" \in DOMAIN executed[k].output
    /\ \E k \in 1..Len(executed) :
          executed[k].inTool /\ "error" \in DOMAIN executed[k].output

\* The fields of the pipeline state, and the fields each stage declares as
\* its output.
StateFields == DOMAIN BlankState \ {"keys"}

DeclaredOutputs ==
    [analyzer |-> {"file_list", "project_context"},
     planner |-> {"test_plan"},
     generator |-> {"generated_test_code"},
     runner |-> {"test_results", "final_report"},
     tool_dispatcher |-> {"tool_response", "last_tool_name"}]

\* C28: the step in which a stage ends returns an update of its declared
\* output fields only and leaves the state itself alone; when the updates
\* of a superstep are written, every field without an update keeps its
\* value; no update ever names target_dir and target_dir never changes.
C28_StagesWriteDeclaredFieldsOnly ==
    [][/\ \A n \in DOMAIN DeclaredOutputs :
             (tasks[n] = "running" /\ tasks'[n] # "running")
             => /\ state' = state
                /\ updates'.keys \ updates.keys \subseteq DeclaredOutputs[n]
                /\ \A k \in StateFields \ DeclaredOutputs[n] : updates'[k] = updates[k]
       /\ "target_dir" \notin updates'.keys
       /\ state'.target_dir = state.target_dir
       /\ \A k \in StateFields \ updates.keys : state'[k] = state[k]]_vars

\* C28 witness: every stage and the dispatcher have written their fields.
C28_Witness ==
    /\ op = "pipeline"
    /\ {"target_dir", "file_list", "project_context", "test_plan", "generated_test_code",
        "test_results", "final_report", "tool_response", "last_tool_name"} \subseteq state.keys
    /\ state.target_dir = "."
    /\ state.test_plan = "plan"
    /\ state.final_report = "report"

\* The file_reader tool was called on its own with a path, and the working
\* directory holds no file of that path.
ReaderCalledOnUnreadable ==
    /\ op = "tool"
    /\ fn_result.done
    /\ fn_args.name = "file_reader"
    /\ IsStr(DictGet(fn_args.args, "path", None))
    /\ ~\E f \in fs : f.dir = "." /\ f.name = PathName(DictGet(fn_args.args, "path", None).s)

\* C21: file_reader_tool called on a path that cannot be read raises
\* nothing and returns a mapping that has an error field and no content
\* field.
C21_UnreadableFileIsAnErrorResult ==
    ReaderCalledOnUnreadable
    => (/\ ~fn_result.value.raised
        /\ "error" \in DOMAIN fn_result.value.out
        /\ "content" \notin DOMAIN fn_result.value.out)

\* estimate_cost_for_files was called on its own and has returned.
EstimateReturned == op = "estimate_cost_for_files" /\ fn_result.done

\* The estimate e is in neither field below the one returned.
NotBelowResult(e) ==
    /\ e.estimated_seconds >= fn_result.value.estimated_seconds
    /\ e.estimate_usd_micro >= fn_result.value.estimate_usd_micro

\* With the other two arguments as they were, no larger file count and no
\* larger runtime gives a smaller estimate than the one returned.
MonotoneAtResult ==
    /\ \A n \in 0..MaxFileCount :
          n >= fn_args.count
          => NotBelowResult(estimate_cost_for_files(n, fn_args.runtime_per_test_s,
                                                    fn_args.cost_per_second_usd))
    /\ \A r \in Runtimes :
          Scaled(r, 3) >= Scaled(fn_args.runtime_per_test_s, 3)
          => NotBelowResult(estimate_cost_for_files(fn_args.count, r,
                                                    fn_args.cost_per_second_usd))

\* C22 as stated: for all inputs, estimated_seconds and estimate_usd are
\* monotonically non-decreasing in the number of files and in
\* runtime_per_test_s, the other arguments held fixed.
C22_MonotoneForAllInputs == EstimateReturned => MonotoneAtResult

\* C22: for a runtime_per_test_s and a cost_per_second_usd that are not
\* negative, estimated_seconds and estimate_usd are monotonically
\* non-decreasing in the number of files and in runtime_per_test_s, the
\* other arguments held fixed.
C22_MonotoneForNonNegativeRates ==
    (/\ EstimateReturned
     /\ Scaled(fn_args.runtime_per_test_s, 3) >= 0
     /\ Scaled(fn_args.cost_per_second_usd, 9) >= 0)
    => MonotoneAtResult

\* C22 witness: an estimate for a fractional runtime and a positive cost
\* that one more file makes strictly larger in both fields.
C22_Witness ==
    /\ EstimateReturned
    /\ fn_args.runtime_per_test_s = Dec(25, 1)
    /\ fn_args.cost_per_second_usd = Dec(5, 4)
    /\ fn_args.count = 1
    /\ fn_result.value.estimated_seconds = 2
    /\ estimate_cost_for_files(2, fn_args.runtime_per_test_s,
                               fn_args.cost_per_second_usd).estimated_seconds = 5
    /\ estimate_cost_for_files(2, fn_args.runtime_per_test_s,
                               fn_args.cost_per_second_usd).estimate_usd_micro
          > fn_result.value.estimate_usd_micro

\* The cost estimator tool was called on its own with a list of files and
\* numbers (or nothing) for the runtime and the cost, and has returned.
CostArgs ==
    [files |-> DictGet(fn_args.args, "files", Arr(<<>>)),
     runtime |-> DictGet(fn_args.args, "runtime_per_test_s", Dec(30, 1)),
     cost |-> DictGet(fn_args.args, "cost_per_second_usd", Dec(5, 4))]

CostEstimatorReturned ==
    /\ op = "tool"
    /\ fn_result.done
    /\ fn_args.name = "cost_estimator"
    /\ IsList(CostArgs.files)
    /\ CostArgs.runtime.kind = "number"
    /\ CostArgs.cost.kind = "number"

\* Thousandths of a second: count(files) * runtime_per_test_s.
CostMilliseconds == Len(CostArgs.files.items) * Scaled(CostArgs.runtime, 3)

\* usd (in millionths) is seconds times the cost, rounded to 6 decimals.
RoundedCost(usd, seconds) ==
    /\ 2 * (usd * (10 ^ 3) - seconds * Scaled(CostArgs.cost, 9)) <= 10 ^ 3
    /\ 2 * (seconds * Scaled(CostArgs.cost, 9) - usd * (10 ^ 3)) <= 10 ^ 3

ListingReturned ==
    /\ op = "tool"
    /\ fn_result.done
    /\ fn_args.name = "file_list"

\* The text files of the tree outside ignored directories, as relative paths.
TextPaths(tree) ==
    { [dir |-> f.dir, name |-> f.name] : f \in { g \in tree \cap TextFiles : g.dir \notin IGNORED_DIRS } }

\* The same without the files whose name is an ignored file name.
ListedTextPaths(tree) ==
    { p \in TextPaths(tree) : p.name \notin {<<".DS_Store">>, <<"thumbs", ".db">>} }

\* C24 as stated: on a tree of text files and one binary file the listing
\* returns exactly the text files outside ignored directories, each once,
\* and neither the binary file nor a file under an ignored directory.
C24_ListsEveryTextFile ==
    ListingReturned
    => (/\ ~fn_result.value.raised
        /\ "files" \in DOMAIN fn_result.value.out
        /\ fn_result.value.out.files = TextPaths(fs))

\* C24: on a tree of text files and one binary file (binary by extension or
\* by a null byte), in a working directory where the tool can write its
\* artifact, the listing returns exactly the text files that are outside
\* ignored directories and not named .DS_Store or thumbs.db, and neither the
\* binary file nor a file under an ignored directory.
C24_ListsEveryTextFileNotIgnored ==
    (ListingReturned /\ env.disk = "rw")
    => (/\ ~fn_result.value.raised
        /\ "files" \in DOMAIN fn_result.value.out
        /\ fn_result.value.out.files = ListedTextPaths(fs)
        /\ \A p \in fn_result.value.out.files :
              /\ p.dir \notin IGNORED_DIRS
              /\ \A b \in BinaryFiles : p # [dir |-> b.dir, name |-> b.name])

\* C24 witness: a tree of four text files and a binary file with a null
\* byte was listed as its two text files that are not ignored.
C24_Witness ==
    /\ ListingReturned
    /\ env.disk = "rw"
    /\ TextFiles \subseteq fs
    /\ File(".", <<"data", ".dat">>, TRUE) \in fs
    /\ "files" \in DOMAIN fn_result.value.out
    /\ Cardinality(fn_result.value.out.files) = 2

\* validate_files_selection was called on its own and has returned.
ValidateReturned == op = "validate_files_selection" /\ fn_result.done

\* The relative path an entry of the selection stands for ("" for an entry
\* that is no mapping).
SelectedPath(item) ==
    IF IsDict(item)
    THEN ResolvePath(fn_args.repo_root, StripText(PyStr(DictGet(item, "path", Str(""))))).rel
    ELSE ""

\* C29: validate_files_selection returns, for every selection, a list in
\* which every path lies inside the root and comes from the selection, no
\* path occurs twice, the entries are in the order of the selection, there
\* are at most max_files of them and every test_type is unit or
\* integration; no empty and no outside path is among them.
C29_ValidatedSelectionIsSafe ==
    ValidateReturned
    => LET out == fn_result.value
           sel == fn_args.selection
       IN  /\ Len(out) <= fn_args.max_files
           /\ \A k \in 1..Len(out) :
                 /\ out[k].path \notin {"", "../x.py", "/etc/passwd"}
                 /\ out[k].test_type \in {"unit", "integration"}
                 /\ \E i \in 1..Len(sel) : SelectedPath(sel[i]) = out[k].path
           /\ \A j, k \in 1..Len(out) :
                 j < k
                 => /\ out[j].path # out[k].path
                    /\ \E a, b \in 1..Len(sel) :
                          /\ a < b
                          /\ SelectedPath(sel[a]) = out[j].path
                          /\ SelectedPath(sel[b]) = out[k].path

\* The step in which an execution of the agent node ends.
AgentEnding == op = "pipeline" /\ tasks["agent"] = "running" /\ tasks'["agent"] # "running"

\* What an execution of the agent node may end with: nothing, for an empty
\* messages list; llm_error alone, with messages and llm_output untouched;
\* or the messages of the state plus exactly one element, the final
\* response, and llm_output.
AgentReturnsAsClaimed ==
    /\ tasks'["agent"] = "finished"
    /\ graph_run' = graph_run
    /\ state' = state
    /\ \A k \in StateFields \ {"messages", "llm_output", "llm_error"} : updates'[k] = updates[k]
    /\ IF state.messages = <<>>
       THEN /\ updates' = updates
            /\ fs' = fs
            /\ call_failed' = call_failed
       ELSE \/ /\ updates'.keys = updates.keys \cup {"llm_error"}
               /\ updates'.messages = updates.messages
               /\ updates'.llm_output = updates.llm_output
               /\ call_failed'
            \/ /\ updates'.keys = updates.keys \cup {"messages", "llm_output"}
               /\ updates'.llm_error = updates.llm_error
               /\ Len(updates'.messages) = Len(state.messages) + 1
               /\ SubSeq(updates'.messages, 1, Len(state.messages)) = state.messages
               /\ updates'.messages[Len(updates'.messages)] = FinalAnswer

\* An execution of the agent node has ended with llm_error in the superstep
\* under way.
AgentErrored ==
    /\ op = "pipeline"
    /\ tasks["agent"] = "finished"
    /\ "llm_error" \in updates.keys

\* Each execution of the agent node ends as claimed.
AgentNodeAsClaimed == [][AgentEnding => AgentReturnsAsClaimed]_vars

\* The run is never aborted by the agent node.
AgentNotTheRaiser == op = "pipeline" => graph_run.node # "agent"

\* The superstep in which the agent returned an llm_error is not aborted,
\* and when it ends the generate stage is scheduled.
ErroredSuperstepNotAborted == AgentErrored => graph_run.status = "running"
GenerateScheduledNext ==
    [][AgentErrored /\ tasks'["agent"] # "finished" => tasks'["generator"] = "scheduled"]_vars

\* C31: the agent node never aborts the run: each of its executions ends
\* with an empty update (empty messages, no model call), with llm_error
\* alone, or with messages grown by exactly the final response; the run is
\* never aborted by the agent node; and after the agent has returned an
\* llm_error the run proceeds to the generate stage.
C31_AgentNeverAbortsRun ==
    /\ AgentNodeAsClaimed
    /\ []AgentNotTheRaiser
    /\ []ErroredSuperstepNotAborted
    /\ GenerateScheduledNext

====
